---- MODULE Spec2Model ----
(***************************************************************************)
(* A model of the AWS resource reaper (lambdas/reaper/reaper.py and        *)
(* lambdas/reaper/reaper_class.py): the scheduled sweep, the per-kind      *)
(* sweeps of ResourceReaper and its deadline validation, run over a small  *)
(* provider world (Spec), and the tag enforcer, enforce and wait_for_tags, *)
(* run on a new instance whose owner tags it while the enforcer polls      *)
(* (EnforcerSpec), with the provider calls they issue recorded in order.   *)
(* wait_for_tags is also run step by step next to another writer of the    *)
(* tags (PollingSpec), and determine_live_mode and validate_lifetime_value *)
(* are applied to environments and strings on their own (ParserSpec).      *)
(***************************************************************************)
EXTENDS Integers, Sequences, FiniteSets, TLC

(* ---------------------------------------------------------------------- *)
(* Bounds of the model                                                     *)
(* ---------------------------------------------------------------------- *)
\* timestamps and the clock range over 0..MaxTime
MaxTime == 2
\* a route table carries the main association and up to MaxAssoc others
MaxAssoc == 1
\* an internet gateway is attached to at most MaxVpcs VPCs
MaxVpcs == 1
\* the strings handed to the parsers have up to MaxLen characters
MaxLen == 3
\* the tag arrays handed to get_tag have up to MaxTags tags
MaxTags == 3

(* ---------------------------------------------------------------------- *)
(* Strings as the code manipulates them: sequences of characters           *)
(* ---------------------------------------------------------------------- *)
LowerCase == <<"a","b","c","d","e","f","g","h","i","j","k","l","m",
               "n","o","p","q","r","s","t","u","v","w","x","y","z">>
UpperCase == <<"A","B","C","D","E","F","G","H","I","J","K","L","M",
               "N","O","P","Q","R","S","T","U","V","W","X","Y","Z">>

IsLower(c) == \E i \in 1..26 : LowerCase[i] = c
IsUpper(c) == \E i \in 1..26 : UpperCase[i] = c
IsCased(c) == IsLower(c) \/ IsUpper(c)
ToUpper(c) == IF IsLower(c) THEN UpperCase[CHOOSE i \in 1..26 : LowerCase[i] = c] ELSE c
ToLower(c) == IF IsUpper(c) THEN LowerCase[CHOOSE i \in 1..26 : UpperCase[i] = c] ELSE c

\* str.title(): first cased character of every word upper, the others lower
StrTitle(s) ==
  [i \in 1..Len(s) |->
     IF i > 1 /\ IsCased(s[i-1]) THEN ToLower(s[i]) ELSE ToUpper(s[i])]

\* str.replace(old, new) for a one-character old and a string new
RECURSIVE StrReplace(_, _, _)
StrReplace(s, old, new) ==
  IF s = <<>> THEN <<>>
  ELSE (IF Head(s) = old THEN new ELSE <<Head(s)>>) \o StrReplace(Tail(s), old, new)

\* s[:-1]
StrDropLast(s) == IF Len(s) = 0 THEN s ELSE SubSeq(s, 1, Len(s) - 1)

\* sub in s
StrContains(sub, s) ==
  \E i \in 1..(Len(s) - Len(sub) + 1) : SubSeq(s, i, i + Len(sub) - 1) = sub

\* the characters of the EC2 collection names that resource_reaper sweeps
ResourceChars ==
  ("instances" :> <<"i", "n", "s", "t", "a", "n", "c", "e", "s">>) @@
  ("internet_gateways" :> <<"i", "n", "t", "e", "r", "n", "e", "t", "_", "g", "a", "t", "e", "w", "a", "y", "s">>) @@
  ("route_tables" :> <<"r", "o", "u", "t", "e", "_", "t", "a", "b", "l", "e", "s">>) @@
  ("network_acls" :> <<"n", "e", "t", "w", "o", "r", "k", "_", "a", "c", "l", "s">>) @@
  ("network_interfaces" :> <<"n", "e", "t", "w", "o", "r", "k", "_", "i", "n", "t", "e", "r", "f", "a", "c", "e", "s">>) @@
  ("subnets" :> <<"s", "u", "b", "n", "e", "t", "s">>) @@
  ("security_groups" :> <<"s", "e", "c", "u", "r", "i", "t", "y", "_", "g", "r", "o", "u", "p", "s">>) @@
  ("vpcs" :> <<"v", "p", "c", "s">>) @@
  ("volumes" :> <<"v", "o", "l", "u", "m", "e", "s">>) @@
  ("snapshots" :> <<"s", "n", "a", "p", "s", "h", "o", "t", "s">>)


Chars_RouteTable == <<"R", "o", "u", "t", "e", "T", "a", "b", "l", "e">>
Chars_NetworkACL == <<"N", "e", "t", "w", "o", "r", "k", "A", "C", "L">>
Chars_Instance == <<"I", "n", "s", "t", "a", "n", "c", "e">>
Chars_InternetGateway == <<"I", "n", "t", "e", "r", "n", "e", "t", "G", "a", "t", "e", "w", "a", "y">>
Chars_instances == <<"i", "n", "s", "t", "a", "n", "c", "e", "s">>

(* ---------------------------------------------------------------------- *)
(* The provider world                                                      *)
(* ---------------------------------------------------------------------- *)
\* the resources of the world, in the order the provider lists them
IdSeq == <<"r1", "r2">>
Ids == {IdSeq[i] : i \in 1..Len(IdSeq)}

\* services and EC2 collections, in the order resource_reaper walks them
Services == <<"elb", "elbv2", "ec2">>
Ec2Resources == <<"instances", "internet_gateways", "route_tables", "network_acls",
                  "network_interfaces", "subnets", "security_groups", "vpcs",
                  "volumes", "snapshots">>
Ec2Kinds == {Ec2Resources[i] : i \in 1..Len(Ec2Resources)}
ElbKinds == {"elb", "elbv2", "target_groups"}
Kinds == Ec2Kinds \cup ElbKinds

\* a tag value: absent (None) or a string, kept by the shape that decides
\* how dateutil and the comparisons treat it
None == [form |-> "none", t |-> 0]
TagStrings ==
  {[form |-> f, t |-> 0] : f \in {"empty", "indefinite", "junk", "naive"}}
    \cup {[form |-> "aware", t |-> t] : t \in 0..MaxTime}

\* lambdas/ec2/reaper_class.py: self.prod_infra = 'prod_infra'
prod_infra_legacy ==
  [form |-> "text", t |-> 0,
   chars |-> <<"p", "r", "o", "d", "_", "i", "n", "f", "r", "a">>]

\* ResourceReaper.__init__: self.prod_infra = "indefinite"
prod_infra == [form |-> "indefinite", t |-> 0]

\* the tag arrays a resource may carry: unset, empty, a foreign tag only,
\* a termination_date tag, or a termination_date tag followed by another
NoTags == [none |-> TRUE, list |-> <<>>]
TagArrays ==
  {NoTags, [none |-> FALSE, list |-> <<>>],
   [none |-> FALSE, list |-> <<[Key |-> "Name", Value |-> [form |-> "junk", t |-> 0]]>>]}
    \cup {[none |-> FALSE, list |-> <<[Key |-> "termination_date", Value |-> v]>>] :
            v \in TagStrings}
    \cup {[none |-> FALSE,
           list |-> <<[Key |-> "termination_date", Value |-> [form |-> "indefinite", t |-> 0]],
                      [Key |-> "Name", Value |-> [form |-> "junk", t |-> 0]]>>]}

\* route-table associations: the main one (id 0) or not, then n others
AssocLists ==
  {(IF m THEN <<[RouteTableAssociationId |-> 0, main |-> TRUE]>> ELSE <<>>)
      \o [i \in 1..n |-> [RouteTableAssociationId |-> i, main |-> FALSE]] :
     m \in BOOLEAN, n \in 0..MaxAssoc}
\* internet-gateway attachments: VPC ids 1..n
AttachLists == {[i \in 1..n |-> [VpcId |-> i]] : n \in 0..MaxVpcs}

InitialState(kind) == IF kind = "instances" THEN "running" ELSE "available"

ResourcesOfKind(kind) ==
  {[kind |-> kind, tags |-> tg, state |-> InitialState(kind),
    associations |-> as, attachments |-> at, is_default |-> d] :
     tg \in TagArrays,
     as \in (IF kind = "route_tables" THEN AssocLists ELSE {<<>>}),
     at \in (IF kind = "internet_gateways" THEN AttachLists ELSE {<<>>}),
     d \in (IF kind = "network_acls" THEN BOOLEAN ELSE {FALSE})}


\* a second resource has no associations, attachments or default flag, and
\* one of each shape of tag array
SecondTagArrays ==
  {NoTags} \cup {[none |-> FALSE, list |-> <<[Key |-> "termination_date", Value |-> v]>>] :
                   v \in {[form |-> "indefinite", t |-> 0], [form |-> "junk", t |-> 0],
                          [form |-> "naive", t |-> 0], [form |-> "aware", t |-> 0],
                          [form |-> "aware", t |-> MaxTime]}}
PlainResources(kind) ==
  {[kind |-> kind, tags |-> tg, state |-> InitialState(kind),
    associations |-> <<>>, attachments |-> <<>>, is_default |-> FALSE] :
     tg \in SecondTagArrays}

\* the worlds a behaviour starts in: r1 is any resource of any kind; r2 is a
\* plain resource of the same kind, of the kind swept last, or a target group
Worlds ==
  UNION {{[i \in Ids |-> IF i = "r1" THEN a ELSE b] :
            b \in UNION {PlainResources(k) : k \in {a.kind, "snapshots", "target_groups"}}} :
         a \in UNION {ResourcesOfKind(k) : k \in Kinds}}

(* ---------------------------------------------------------------------- *)
(* Policy core (lambdas/reaper/reaper_class.py)                            *)
(* ---------------------------------------------------------------------- *)
\* the for loop of get_tag: the value of the first tag whose key matches
RECURSIVE get_tag_scan(_, _)
get_tag_scan(list, tag_name) ==
  IF list = <<>> THEN None
  ELSE IF Head(list).Key = tag_name THEN Head(list).Value
  ELSE get_tag_scan(Tail(list), tag_name)

\* get_tag whose loop lacks the break: the last tag decides
RECURSIVE get_tag_scan_no_break(_, _, _)
get_tag_scan_no_break(list, tag_name, output) ==
  IF list = <<>> THEN output
  ELSE get_tag_scan_no_break(Tail(list), tag_name,
         IF Head(list).Key = tag_name THEN Head(list).Value ELSE None)

get_tag_no_break(tag_array, tag_name) ==
  IF tag_array.none THEN None
  ELSE IF tag_array.list = <<>> THEN None
  ELSE get_tag_scan_no_break(tag_array.list, tag_name, None)

get_tag(tag_array, tag_name) ==
  IF tag_array.none THEN None
  ELSE IF tag_array.list = <<>> THEN None
  ELSE get_tag_scan(tag_array.list, tag_name)

\* dateutil.parser.parse: a datetime (aware or naive), or an error
dateutil_parse(v) ==
  CASE v.form = "aware" -> [err |-> "none", aware |-> TRUE, t |-> v.t]
    [] v.form = "naive" -> [err |-> "none", aware |-> FALSE, t |-> v.t]
    [] v.form = "none"  -> [err |-> "TypeError", aware |-> FALSE, t |-> 0]
    [] OTHER            -> [err |-> "ValueError", aware |-> FALSE, t |-> 0]

\* the test `dateutil.parser.parse(termination_date) > self.timenow_with_utc()`
\* of the sweep: its truth value, or the exception it raises (timenow_with_utc
\* is always aware, so a naive left operand is a TypeError)
parse_gt_now(termination_date, clock) ==
  LET p == dateutil_parse(termination_date) IN
  IF p.err # "none" THEN p.err
  ELSE IF ~p.aware THEN "TypeError"
  ELSE IF p.t > clock THEN "True" ELSE "False"

adjust_resource_string(resource) ==
  IF StrContains(<<"_">>, resource)
    THEN StrDropLast(StrReplace(StrTitle(StrReplace(resource, "_", <<" ">>)), " ", <<>>))
    ELSE StrDropLast(StrTitle(resource))

(* ---------------------------------------------------------------------- *)
(* Provider calls: each is appended to the call log and takes effect       *)
(* ---------------------------------------------------------------------- *)
ProviderCall(op, id, arg) == [op |-> op, id |-> id, arg |-> arg]

RemoveAt(s, P(_)) == SelectSeq(s, LAMBDA x : ~P(x))

\* create_tags with one tag: the value of an existing key is replaced, a new
\* key is added
UpsertTag(tag_array, tag) ==
  IF tag_array.none THEN [none |-> FALSE, list |-> <<tag>>]
  ELSE IF \E n \in 1..Len(tag_array.list) : tag_array.list[n].Key = tag.Key
    THEN [tag_array EXCEPT !.list =
            [n \in 1..Len(@) |-> IF @[n].Key = tag.Key THEN tag ELSE @[n]]]
  ELSE [tag_array EXCEPT !.list = Append(@, tag)]

Effect(prov, c) ==
  CASE c.op = "delete"    -> [prov EXCEPT ![c.id].state = "deleted"]
    [] c.op = "create_tags" -> [prov EXCEPT ![c.id].tags = UpsertTag(@, c.arg)]
    [] c.op = "terminate" -> [prov EXCEPT ![c.id].state = "terminated"]
    [] c.op = "stop"      -> [prov EXCEPT ![c.id].state = "stopped"]
    [] c.op = "delete_association" ->
         [prov EXCEPT ![c.id].associations =
            RemoveAt(@, LAMBDA a : a.RouteTableAssociationId = c.arg)]
    [] c.op = "detach_from_vpc" ->
         [prov EXCEPT ![c.id].attachments = RemoveAt(@, LAMBDA a : a.VpcId = c.arg)]
    [] OTHER -> prov

\* w carries the provider state and the call log through an operation
Issue(w, c) == [w EXCEPT !.prov = Effect(w.prov, c), !.calls = Append(w.calls, c)]

DestructiveOps == {"delete", "terminate", "stop", "delete_association", "detach_from_vpc"}

\* the RouteTable branch: delete every association that is not the main one
RECURSIVE delete_route_table_associations(_, _, _)
delete_route_table_associations(w, resource_id, route_table_associations) ==
  IF route_table_associations = <<>> THEN w
  ELSE LET route_table_association == Head(route_table_associations)
           w1 == IF ~route_table_association.main
                   THEN Issue(w, ProviderCall("delete_association", resource_id,
                                  route_table_association.RouteTableAssociationId))
                   ELSE w
       IN delete_route_table_associations(w1, resource_id, Tail(route_table_associations))

\* the InternetGateway branch: detach from every attached VPC
RECURSIVE detach_from_vpcs(_, _, _)
detach_from_vpcs(w, resource_id, vpcs_to_detach) ==
  IF vpcs_to_detach = <<>> THEN w
  ELSE detach_from_vpcs(
         Issue(w, ProviderCall("detach_from_vpc", resource_id, Head(vpcs_to_detach).VpcId)),
         resource_id, Tail(vpcs_to_detach))

\* delete_ec2_resource whose InternetGateway branch deletes without detaching,
\* as delete_internet_gateway of lambdas/ec2/reaper.py does
delete_ec2_resource_no_detach(w, resource, resource_id) ==
  LET rs == adjust_resource_string(ResourceChars[resource])
      item == w.prov[resource_id]
  IN IF StrContains(Chars_RouteTable, rs)
       THEN delete_route_table_associations(w, resource_id, item.associations)
     ELSE IF StrContains(Chars_NetworkACL, rs)
       THEN (IF ~item.is_default THEN Issue(w, ProviderCall("delete", resource_id, 0)) ELSE w)
     ELSE IF StrContains(Chars_Instance, rs)
       THEN Issue(Issue(w, ProviderCall("terminate", resource_id, 0)),
                  ProviderCall("wait_instance_terminated", resource_id, 0))
     ELSE Issue(w, ProviderCall("delete", resource_id, 0))

delete_ec2_resource(w, resource, resource_id) ==
  LET rs == adjust_resource_string(ResourceChars[resource])
      item == w.prov[resource_id]
  IN IF StrContains(Chars_RouteTable, rs)
       THEN delete_route_table_associations(w, resource_id, item.associations)
     ELSE IF StrContains(Chars_NetworkACL, rs)
       THEN (IF ~item.is_default THEN Issue(w, ProviderCall("delete", resource_id, 0)) ELSE w)
     ELSE IF StrContains(Chars_Instance, rs)
       THEN Issue(Issue(w, ProviderCall("terminate", resource_id, 0)),
                  ProviderCall("wait_instance_terminated", resource_id, 0))
     ELSE IF StrContains(Chars_InternetGateway, rs)
       THEN Issue(detach_from_vpcs(w, resource_id, item.attachments),
                  ProviderCall("delete", resource_id, 0))
     ELSE Issue(w, ProviderCall("delete", resource_id, 0))

delete_target_group(w, tg_arn) == Issue(w, ProviderCall("delete", tg_arn, 0))

delete_load_balancer(w, lb_name) == Issue(w, ProviderCall("delete", lb_name, 0))

\* delete_v2_load_balancer that returns without the waiter
delete_v2_load_balancer_no_wait(w, lb_arn) == Issue(w, ProviderCall("delete", lb_arn, 0))

delete_v2_load_balancer(w, lb_arn) ==
  Issue(Issue(w, ProviderCall("delete", lb_arn, 0)),
        ProviderCall("wait_load_balancers_deleted", lb_arn, 0))

\* resource.title()[:-1] names the Instance class; then item.stop()
\* a sweep that marks what it stops
stop_instance_marking(w, resource, resource_id) ==
  IF StrDropLast(StrTitle(ResourceChars[resource])) = Chars_Instance
    THEN Issue(Issue(w, ProviderCall("stop", resource_id, 0)),
               ProviderCall("create_tags", resource_id,
                            [Key |-> "termination_date", Value |-> prod_infra]))
    ELSE [w EXCEPT !.raised = "AttributeError"]

stop_instance(w, resource, resource_id) ==
  IF StrDropLast(StrTitle(ResourceChars[resource])) = Chars_Instance
    THEN Issue(w, ProviderCall("stop", resource_id, 0))
    ELSE [w EXCEPT !.raised = "AttributeError"]


(* ---------------------------------------------------------------------- *)
(* Deadline validation of the enforcer (validate_ec2_termination_date)     *)
(* ---------------------------------------------------------------------- *)
\* terminate_instance: the output it returns names the reason; the instance
\* is terminated (and waited for) only in live mode
\* terminate_instance that does not look at livemode
terminate_instance_always(w, instance_id, message, livemode) ==
  [Issue(Issue(w, ProviderCall("terminate", instance_id, 0)),
         ProviderCall("wait_instance_terminated", instance_id, 0))
     EXCEPT !.output = [msg |-> "REAPER TERMINATION", what |-> message,
                        ids |-> <<instance_id>>]]

terminate_instance(w, instance_id, message, livemode) ==
  LET w1 == IF livemode
              THEN Issue(Issue(w, ProviderCall("terminate", instance_id, 0)),
                         ProviderCall("wait_instance_terminated", instance_id, 0))
              ELSE w
  IN [w1 EXCEPT !.output = [msg |-> "REAPER TERMINATION", what |-> message,
                            ids |-> <<instance_id>>]]

\* `dateutil.parser.parse(termination_date) - self.timenow_with_utc()`:
\* "none" when it evaluates, else the exception it raises
parse_minus_now(termination_date, clock) ==
  LET p == dateutil_parse(termination_date) IN
  IF p.err # "none" THEN p.err
  ELSE IF ~p.aware THEN "TypeError"
  ELSE "none"

\* `error is TypeError`: the identity of an exception instance and a class
error_is_TypeError(error) == FALSE

NoOutput == [msg |-> "None", what |-> "None", ids |-> <<>>]

validate_ec2_termination_date(w, instance_id, livemode, clock) ==
  LET termination_date == get_tag(w.prov[instance_id].tags, "termination_date")
      error == parse_minus_now(termination_date, clock)
      \* the except clause; re.search is handed the bound method error.__str__
      \* instead of a string, which is itself a TypeError
      w1 == IF error # "none" /\ error_is_TypeError(error)
              THEN [w EXCEPT !.raised = "TypeError"]
              ELSE w
  IN IF w1.raised # "none" THEN w1
     ELSE IF w1.output = NoOutput
       THEN LET c == parse_gt_now(termination_date, clock) IN
            CASE c = "True"  -> [w1 EXCEPT !.output =
                                   [msg |-> "EC2 instance will be terminated",
                                    what |-> "seconds from now", ids |-> <<instance_id>>]]
              [] c = "False" -> terminate_instance(w1, instance_id,
                                                   "The termination_date has passed", livemode)
              [] OTHER       -> [w1 EXCEPT !.raised = c]
     ELSE w1

(* ---------------------------------------------------------------------- *)
(* The per-kind sweeps of ResourceReaper                                   *)
(* ---------------------------------------------------------------------- *)
\* what the provider lists for a kind: instances are filtered to the running
\* state, every other collection lists what still exists
ListResources(prov, kind) ==
  SelectSeq(IdSeq, LAMBDA r :
     /\ prov[r].kind = kind
     /\ IF kind = "instances" THEN prov[r].state = "running"
                               ELSE prov[r].state # "deleted")

\* the accumulator of one per-kind sweep: the three id lists, the provider
\* state and call log so far, and the exception that ended it (if any)
NewSweep(prov, calls) ==
  [prov |-> prov, calls |-> calls, raised |-> "none",
   deleted |-> <<>>, improperly_tagged |-> <<>>, stopped |-> <<>>]

\* the loop body without the test that the collection is the instances
ec2_item_stops_any_kind(acc, resource, resource_id, livemode, clock) ==
  LET item == acc.prov[resource_id]
      termination_date == get_tag(item.tags, "termination_date")
  IN IF termination_date = None
       THEN LET a2 == [acc EXCEPT !.improperly_tagged = Append(@, resource_id),
                                  !.stopped = Append(@, resource_id)] IN
            IF livemode THEN stop_instance(a2, resource, resource_id) ELSE a2
     ELSE IF termination_date # prod_infra
       THEN LET c == parse_gt_now(termination_date, clock) IN
            CASE c = "True"       -> acc
              [] c = "False"      ->
                   LET a1 == IF livemode THEN delete_ec2_resource(acc, resource, resource_id)
                                         ELSE acc
                   IN [a1 EXCEPT !.deleted = Append(@, resource_id)]
              [] c = "ValueError" -> acc
              [] OTHER            -> [acc EXCEPT !.raised = c]
     ELSE acc

\* the loop body whose except clause treats the resource as untagged, as
\* terminate_expired_instances of lambdas/ec2/reaper.py does
ec2_item_stops_unparsable(acc, resource, resource_id, livemode, clock) ==
  LET item == acc.prov[resource_id]
      termination_date == get_tag(item.tags, "termination_date")
      untagged == [acc EXCEPT !.improperly_tagged = Append(@, resource_id)]
      stop == IF StrContains(Chars_instances, ResourceChars[resource])
                THEN LET a2 == [untagged EXCEPT !.stopped = Append(@, resource_id)] IN
                     IF livemode THEN stop_instance(a2, resource, resource_id) ELSE a2
                ELSE untagged
  IN IF termination_date = None THEN stop
     ELSE IF termination_date # prod_infra
       THEN LET c == parse_gt_now(termination_date, clock) IN
            CASE c = "True"       -> acc
              [] c = "False"      ->
                   LET a1 == IF livemode THEN delete_ec2_resource(acc, resource, resource_id)
                                         ELSE acc
                   IN [a1 EXCEPT !.deleted = Append(@, resource_id)]
              [] c = "ValueError" -> stop
              [] OTHER            -> [acc EXCEPT !.raised = c]
     ELSE acc

\* the loop body that records what it deleted and stopped only when live
ec2_item_records_only_live(acc, resource, resource_id, livemode, clock) ==
  LET item == acc.prov[resource_id]
      termination_date == get_tag(item.tags, "termination_date")
  IN IF termination_date = None
       THEN LET a1 == [acc EXCEPT !.improperly_tagged = Append(@, resource_id)] IN
            IF StrContains(Chars_instances, ResourceChars[resource])
              THEN (IF livemode
                      THEN stop_instance([a1 EXCEPT !.stopped = Append(@, resource_id)],
                                         resource, resource_id)
                      ELSE a1)
              ELSE a1
     ELSE IF termination_date # prod_infra
       THEN LET c == parse_gt_now(termination_date, clock) IN
            CASE c = "True"       -> acc
              [] c = "False"      ->
                   IF livemode
                     THEN [delete_ec2_resource(acc, resource, resource_id)
                             EXCEPT !.deleted = Append(@, resource_id)]
                     ELSE acc
              [] c = "ValueError" -> acc
              [] OTHER            -> [acc EXCEPT !.raised = c]
     ELSE acc

\* the body of the for loop of terminate_expired_ec2_resources (the tags of
\* a network interface are read from tag_set, those of the other kinds from
\* tags; both are the tag array the provider holds)
ec2_item(acc, resource, resource_id, livemode, clock) ==
  LET item == acc.prov[resource_id]
      termination_date == get_tag(item.tags, "termination_date")
  IN IF termination_date = None
       THEN LET a1 == [acc EXCEPT !.improperly_tagged = Append(@, resource_id)] IN
            IF StrContains(Chars_instances, ResourceChars[resource])
              THEN LET a2 == [a1 EXCEPT !.stopped = Append(@, resource_id)] IN
                   IF livemode THEN stop_instance(a2, resource, resource_id) ELSE a2
              ELSE a1
     ELSE IF termination_date # prod_infra
       THEN LET c == parse_gt_now(termination_date, clock) IN
            CASE c = "True"       -> acc
              [] c = "False"      ->
                   LET a1 == IF livemode THEN delete_ec2_resource(acc, resource, resource_id)
                                         ELSE acc
                   IN [a1 EXCEPT !.deleted = Append(@, resource_id)]
              [] c = "ValueError" -> acc
              [] OTHER            -> [acc EXCEPT !.raised = c]
     ELSE acc

RECURSIVE ec2_loop(_, _, _, _, _)
ec2_loop(acc, resource, resources, livemode, clock) ==
  IF resources = <<>> \/ acc.raised # "none" THEN acc
  ELSE ec2_loop(ec2_item(acc, resource, Head(resources), livemode, clock),
                resource, Tail(resources), livemode, clock)

terminate_expired_ec2_resources(prov, calls, resource, livemode, clock) ==
  ec2_loop(NewSweep(prov, calls), resource, ListResources(prov, resource), livemode, clock)

\* the body of the for loop of terminate_expired_load_balancers
load_balancer_item(acc, service, lb_name, livemode, clock) ==
  LET termination_date == get_tag(acc.prov[lb_name].tags, "termination_date")
  IN IF termination_date = None
       THEN [acc EXCEPT !.improperly_tagged = Append(@, lb_name)]
     ELSE IF termination_date # prod_infra
       THEN LET c == parse_gt_now(termination_date, clock) IN
            CASE c = "True"       -> acc
              [] c = "False"      ->
                   LET a1 == IF service = "elbv2"
                               THEN (IF livemode THEN delete_v2_load_balancer(acc, lb_name)
                                                 ELSE acc)
                               ELSE (IF livemode THEN delete_load_balancer(acc, lb_name)
                                                 ELSE acc)
                   IN [a1 EXCEPT !.deleted = Append(@, lb_name)]
              [] c = "ValueError" -> acc
              [] OTHER            -> [acc EXCEPT !.raised = c]
     ELSE acc

RECURSIVE load_balancer_loop(_, _, _, _, _)
load_balancer_loop(acc, service, load_balancer_info, livemode, clock) ==
  IF load_balancer_info = <<>> \/ acc.raised # "none" THEN acc
  ELSE load_balancer_loop(
         load_balancer_item(acc, service, Head(load_balancer_info), livemode, clock),
         service, Tail(load_balancer_info), livemode, clock)

terminate_expired_load_balancers(prov, calls, service, livemode, clock) ==
  load_balancer_loop(NewSweep(prov, calls), service, ListResources(prov, service),
                     livemode, clock)

\* the body of the for loop of terminate_expired_target_groups
target_group_item(acc, tg_arn, livemode, clock) ==
  LET termination_date == get_tag(acc.prov[tg_arn].tags, "termination_date")
  IN IF termination_date = None
       THEN [acc EXCEPT !.improperly_tagged = Append(@, tg_arn)]
     ELSE IF termination_date # prod_infra
       THEN LET c == parse_gt_now(termination_date, clock) IN
            CASE c = "True"       -> acc
              [] c = "False"      ->
                   LET a1 == IF livemode THEN delete_target_group(acc, tg_arn) ELSE acc
                   IN [a1 EXCEPT !.deleted = Append(@, tg_arn)]
              [] c = "ValueError" -> acc
              [] OTHER            -> [acc EXCEPT !.raised = c]
     ELSE acc

RECURSIVE target_group_loop(_, _, _, _)
target_group_loop(acc, target_groups_array, livemode, clock) ==
  IF target_groups_array = <<>> \/ acc.raised # "none" THEN acc
  ELSE target_group_loop(target_group_item(acc, Head(target_groups_array), livemode, clock),
                         Tail(target_groups_array), livemode, clock)

terminate_expired_target_groups(prov, calls, livemode, clock) ==
  target_group_loop(NewSweep(prov, calls), ListResources(prov, "target_groups"),
                    livemode, clock)

\* the dict a per-kind sweep returns (the load-balancer and target-group
\* sweeps return no "stopped" list)
\* a returned dict that counts what was stopped as deleted
Ec2Data_stopped_as_deleted(acc) ==
  [deleted |-> acc.deleted \o acc.stopped,
   improperly_tagged |-> acc.improperly_tagged, stopped |-> acc.stopped]

Ec2Data(acc) ==
  [deleted |-> acc.deleted, improperly_tagged |-> acc.improperly_tagged,
   stopped |-> acc.stopped]
ElbData(acc) ==
  [deleted |-> acc.deleted, improperly_tagged |-> acc.improperly_tagged]


(* ---------------------------------------------------------------------- *)
(* Configuration and the scheduled handler (lambdas/reaper/reaper.py)      *)
(* ---------------------------------------------------------------------- *)
\* the LIVEMODE entry of os.environ: unset, or a string
EnvUnset == [set |-> FALSE, value |-> <<>>]
EnvValues ==
  {EnvUnset} \cup {[set |-> TRUE, value |-> v] :
                     v \in {<<"t", "r", "u", "e">>, <<"f", "a", "l", "s", "e">>}}

StrLower(s) == [i \in 1..Len(s) |-> ToLower(s[i])]

\* re.search(r"(?i)^true$", value): $ also matches before one final newline
determine_live_mode(env) ==
  IF env.set
    THEN LET v == env.value
             body == IF Len(v) > 0 /\ v[Len(v)] = "\n" THEN StrDropLast(v) ELSE v
         IN StrLower(body) = <<"t", "r", "u", "e">>
    ELSE FALSE

\* reaper.py: LIVEMODE = True #determine_live_mode()
LIVEMODE(env) == TRUE

LogLine(msg, what, ids) == [msg |-> msg, what |-> what, ids |-> ids]

\* the prints that follow a per-kind sweep in resource_reaper
ReportDeleted(log0, what, items, lm) ==
  IF items.deleted # <<>>
    THEN Append(log0, LogLine(IF lm THEN "LIVE_TERMINATION_MESSAGE"
                                    ELSE "NOOP_TERMINATION_MESSAGE", what, items.deleted))
    ELSE log0
ReportImproper(log0, what, items) ==
  IF items.improperly_tagged # <<>>
    THEN Append(log0, LogLine("IMPROPER_TAGS", what, items.improperly_tagged))
    ELSE log0
ReportStopped(log0, what, items, lm) ==
  IF items.stopped # <<>>
    THEN Append(log0, LogLine(IF lm THEN "STOPPED_MESSAGE" ELSE "NOOP_STOPPED",
                              what, items.stopped))
    ELSE log0

\* R is the state of one run of the handler: provider, call log, the dicts
\* returned so far (by kind), the lines printed, the exception that ended it
NewRun(prov) ==
  [prov |-> prov, calls |-> <<>>, raised |-> "none", outcome |-> <<>>, log |-> <<>>]

Aborted(R, acc) == [R EXCEPT !.prov = acc.prov, !.calls = acc.calls, !.raised = acc.raised]

\* the prints and bookkeeping after terminate_expired_target_groups returns
after_target_groups(R, tg, lm) ==
  IF tg.raised # "none" THEN Aborted(R, tg)
  ELSE [R EXCEPT !.prov = tg.prov, !.calls = tg.calls,
                 !.outcome = @ @@ ("target_groups" :> ElbData(tg)),
                 !.log = ReportImproper(ReportDeleted(@, "target_groups", ElbData(tg), lm),
                                        "target_group", ElbData(tg))]

\* the prints and bookkeeping after terminate_expired_load_balancers returns
after_load_balancers(R, service, acc, lm) ==
  IF acc.raised # "none" THEN Aborted(R, acc)
  ELSE [R EXCEPT !.prov = acc.prov, !.calls = acc.calls,
                 !.outcome = @ @@ (service :> ElbData(acc)),
                 !.log = ReportImproper(
                           ReportDeleted(@, IF service = "elb" THEN "elbs" ELSE "elbv2s",
                                         ElbData(acc), lm),
                           IF service = "elb" THEN "elbs" ELSE "elbv2s", ElbData(acc))]

\* the branch with the two sweeps of elbv2 exchanged: target groups first
reap_load_balancers_target_groups_first(R, service, lm, clock) ==
  LET R0 == IF service = "elbv2"
              THEN after_target_groups(R,
                     terminate_expired_target_groups(R.prov, R.calls, lm, clock), lm)
              ELSE R
  IN IF R0.raised = "none"
       THEN after_load_balancers(R0, service,
              terminate_expired_load_balancers(R0.prov, R0.calls, service, lm, clock), lm)
       ELSE R0

\* the `service != "ec2"` branch of the services loop
reap_load_balancers(R, service, lm, clock) ==
  LET R1 == after_load_balancers(R, service,
              terminate_expired_load_balancers(R.prov, R.calls, service, lm, clock), lm)
  IN IF R1.raised = "none" /\ service = "elbv2"
       THEN after_target_groups(R1,
              terminate_expired_target_groups(R1.prov, R1.calls, lm, clock), lm)
       ELSE R1

\* the prints and bookkeeping after terminate_expired_ec2_resources returns
after_ec2_resources(R, resource, acc, lm) ==
  IF acc.raised # "none" THEN Aborted(R, acc)
  ELSE [R EXCEPT !.prov = acc.prov, !.calls = acc.calls,
                 !.outcome = @ @@ (resource :> Ec2Data(acc)),
                 !.log = ReportStopped(
                           ReportImproper(ReportDeleted(@, resource, Ec2Data(acc), lm),
                                          resource, Ec2Data(acc)),
                           resource, Ec2Data(acc), lm)]

\* the `for resource in resources` loop of the ec2 branch
RECURSIVE reap_ec2_resources(_, _, _, _)
reap_ec2_resources(R, resources, lm, clock) ==
  IF resources = <<>> \/ R.raised # "none" THEN R
  ELSE reap_ec2_resources(
         after_ec2_resources(R, Head(resources),
           terminate_expired_ec2_resources(R.prov, R.calls, Head(resources), lm, clock), lm),
         Tail(resources), lm, clock)

\* the `for service in services` loop
RECURSIVE reap_services(_, _, _, _)
reap_services(R, services, lm, clock) ==
  IF services = <<>> \/ R.raised # "none" THEN R
  ELSE reap_services(
         IF Head(services) # "ec2"
           THEN reap_load_balancers(R, Head(services), lm, clock)
           ELSE reap_ec2_resources(R, Ec2Resources, lm, clock),
         Tail(services), lm, clock)

(* ---------------------------------------------------------------------- *)
(* The tag enforcer: wait_for_tags (lambdas/reaper/reaper_class.py) and    *)
(* the handler enforce (lambdas/reaper/reaper.py)                          *)
(* ---------------------------------------------------------------------- *)
\* the clock counts ticks of 15 seconds: one time.sleep(15) of the poll loop
SleepTicks == 1
MinuteTicks == 4
HourTicks == 60 * MinuteTicks
DayTicks == 24 * HourTicks
WeekTicks == 7 * DayTicks

\* a tag value that is some other text, kept by its characters
Text(chars) == [form |-> "text", t |-> 0, chars |-> chars]
Chars_indefinite == <<"i", "n", "d", "e", "f", "i", "n", "i", "t", "e">>
TagChars(v) ==
  CASE v.form = "text" -> v.chars
    [] v.form = "indefinite" -> Chars_indefinite
    [] OTHER -> <<>>

\* `if value:` on a tag value: None and the empty string are false
Truthy(v) == v # None /\ v.form # "empty"

Digits == <<"0", "1", "2", "3", "4", "5", "6", "7", "8", "9">>
IsDigit(c) == \E i \in 1..10 : Digits[i] = c
DigitValue(c) == (CHOOSE i \in 1..10 : Digits[i] = c) - 1

\* int() of a string of digits
RECURSIVE StrToInt(_, _)
StrToInt(s, acc) ==
  IF s = <<>> THEN acc ELSE StrToInt(Tail(s), 10 * acc + DigitValue(Head(s)))

\* re.search(r"^([0-9]+)(w|d|h|m)$", lifetime_value): $ also matches before
\* one final newline; the result is None or the tuple (length, unit)
validate_lifetime_value(lifetime_value) ==
  LET body == IF Len(lifetime_value) > 0 /\ lifetime_value[Len(lifetime_value)] = "\n"
                THEN StrDropLast(lifetime_value) ELSE lifetime_value
      search_result ==
        /\ Len(body) >= 2
        /\ body[Len(body)] \in {"w", "d", "h", "m"}
        /\ \A i \in 1..(Len(body) - 1) : IsDigit(body[i])
  IN IF ~search_result THEN [none |-> TRUE, length |-> 0, unit |-> ""]
     ELSE [none |-> FALSE, length |-> StrToInt(StrDropLast(body), 0),
           unit |-> body[Len(body)]]

\* datetime.timedelta keeps days and seconds (0 <= seconds < 86400) and
\* raises OverflowError when the days exceed 999999999
MaxTimedeltaDays == 999999999
timedelta(weeks, days, hours, minutes) ==
  IF weeks > MaxTimedeltaDays \div 7
    THEN [err |-> "OverflowError", days |-> 0, seconds |-> 0]
  ELSE LET carried == 7 * weeks + days + (hours \div 24) + (minutes \div 1440)
       IN IF carried > MaxTimedeltaDays
            THEN [err |-> "OverflowError", days |-> 0, seconds |-> 0]
            ELSE [err |-> "none", days |-> carried,
                  seconds |-> (hours % 24) * 3600 + (minutes % 1440) * 60]

\* a timedelta in ticks of the clock
timedelta_ticks(delta) == delta.days * DayTicks + (delta.seconds \div 15)

\* calculate_lifetime_delta with the units of hours and minutes exchanged
calculate_lifetime_delta_units_exchanged(lifetime_tuple) ==
  LET length == lifetime_tuple.length
      unit == lifetime_tuple.unit
  IN CASE unit = "w" -> timedelta(length, 0, 0, 0)
       [] unit = "h" -> timedelta(0, 0, 0, length)
       [] unit = "d" -> timedelta(0, length, 0, 0)
       [] unit = "m" -> timedelta(0, 0, length, 0)
       [] OTHER      -> [err |-> "ValueError", days |-> 0, seconds |-> 0]

\* the timedelta of a (length, unit) tuple: datetime.timedelta(weeks=length),
\* (hours=length), (days=length), (minutes=length), or ValueError
calculate_lifetime_delta(lifetime_tuple) ==
  LET length == lifetime_tuple.length
      unit == lifetime_tuple.unit
  IN CASE unit = "w" -> timedelta(length, 0, 0, 0)
       [] unit = "h" -> timedelta(0, 0, length, 0)
       [] unit = "d" -> timedelta(0, length, 0, 0)
       [] unit = "m" -> timedelta(0, 0, 0, length)
       [] OTHER      -> [err |-> "ValueError", days |-> 0, seconds |-> 0]

\* timenow_with_utc(): the clock as a timezone-aware datetime
timenow_with_utc(clock) == [aware |-> TRUE, t |-> clock]

\* datetime.isoformat(): the offset is written exactly for an aware datetime
isoformat(dt) == [form |-> IF dt.aware THEN "aware" ELSE "naive", t |-> dt.t]

\* the tags the owner of the instance sets while the enforcer waits: from
\* poll number `at` on the instance carries `tags` (at = 0: no change)
NoChange == [at |-> 0, tags |-> NoTags]

\* ec2_instance.load(): the tags as the provider holds them at this poll
load(w, instance_id, sched) ==
  LET poll == w.polls + 1
      prov1 == IF poll = sched.at THEN [w.prov EXCEPT ![instance_id].tags = sched.tags]
                                  ELSE w.prov
  IN [w EXCEPT !.prov = prov1, !.polls = poll,
               !.calls = Append(@, ProviderCall("load", instance_id, prov1[instance_id].tags))]

\* print("No 'lifetime' tag found; sleeping for 15s"); time.sleep(15)
sleep(w, instance_id) ==
  [w EXCEPT !.log = Append(@, LogLine("No 'lifetime' tag found; sleeping for 15s",
                                      "", <<instance_id>>)),
            !.calls = Append(@, ProviderCall("sleep", instance_id, SleepTicks)),
            !.clock = @ + SleepTicks]

create_tags(w, instance_id, value) ==
  Issue(w, ProviderCall("create_tags", instance_id,
                        [Key |-> "termination_date", Value |-> value]))

\* output = self.terminate_instance(ec2_instance, message); print(output)
terminate_and_print(w, instance_id, message, livemode) ==
  LET w1 == terminate_instance(w, instance_id, message, livemode)
  IN [w1 EXCEPT !.log = Append(@, w1.output)]

\* timeout = start + datetime.timedelta(seconds=self.wait_time)
wait_timeout_in_seconds(start, wait_time) == start + (wait_time \div 15)

\* timeout = start + datetime.timedelta(minutes=self.wait_time)
wait_timeout(start, wait_time) == start + wait_time * MinuteTicks

\* one pass of the while loop that asks for the lifetime tag first
poll_lifetime_first(w, instance_id, start, livemode, sched) ==
  LET w1 == load(w, instance_id, sched)
      termination_date == get_tag(w1.prov[instance_id].tags, "termination_date")
      lifetime == get_tag(w1.prov[instance_id].tags, "lifetime")
      lifetime_match == validate_lifetime_value(TagChars(lifetime))
      lifetime_delta == calculate_lifetime_delta(lifetime_match)
  IN IF ~Truthy(lifetime)
       THEN (IF Truthy(termination_date)
               THEN [w1 EXCEPT !.done = TRUE, !.returned = termination_date,
                               !.log = Append(@, LogLine("'termination_date' tag found!",
                                                         "", <<instance_id>>))]
               ELSE sleep(w1, instance_id))
     ELSE IF lifetime = prod_infra
       THEN [create_tags(w1, instance_id, prod_infra) EXCEPT !.done = TRUE]
     ELSE IF lifetime_match.none
       THEN [terminate_and_print(w1, instance_id, "Invalid lifetime value supplied", livemode)
               EXCEPT !.done = TRUE]
     ELSE IF lifetime_delta.err # "none"
       THEN [w1 EXCEPT !.done = TRUE, !.raised = lifetime_delta.err]
     ELSE [create_tags(w1, instance_id,
                       isoformat([aware |-> start.aware, t |-> start.t + timedelta_ticks(lifetime_delta)]))
             EXCEPT !.done = TRUE,
                    !.log = Append(@, LogLine("'termination_date' tag created!",
                                              "", <<instance_id>>))]

\* a pass of the while loop that goes on after an invalid lifetime
decide_on_after_invalid(w1, ec2_instance_tags, instance_id, start, livemode) ==
  LET termination_date == get_tag(ec2_instance_tags, "termination_date")
      lifetime == get_tag(ec2_instance_tags, "lifetime")
      lifetime_match == validate_lifetime_value(TagChars(lifetime))
  IN IF Truthy(termination_date)
       THEN [w1 EXCEPT !.done = TRUE, !.returned = termination_date]
     ELSE IF ~Truthy(lifetime)
       THEN sleep(w1, instance_id)
     ELSE IF lifetime = prod_infra
       THEN [create_tags(w1, instance_id, prod_infra) EXCEPT !.done = TRUE]
     ELSE IF lifetime_match.none
       THEN sleep(terminate_and_print(w1, instance_id, "Invalid lifetime value supplied",
                                      livemode), instance_id)
     ELSE [create_tags(w1, instance_id,
                       isoformat([aware |-> start.aware,
                                  t |-> start.t + timedelta_ticks(calculate_lifetime_delta(lifetime_match))]))
             EXCEPT !.done = TRUE]

\* one pass of the while loop of wait_for_tags after ec2_instance.load(), on
\* the tags the instance object holds since; done says that it returned
decide(w1, ec2_instance_tags, instance_id, start, livemode) ==
  LET termination_date == get_tag(ec2_instance_tags, "termination_date")
      lifetime == get_tag(ec2_instance_tags, "lifetime")
      lifetime_match == validate_lifetime_value(TagChars(lifetime))
      lifetime_delta == calculate_lifetime_delta(lifetime_match)
  IN IF Truthy(termination_date)
       THEN [w1 EXCEPT !.done = TRUE, !.returned = termination_date,
                       !.log = Append(@, LogLine("'termination_date' tag found!",
                                                 "", <<instance_id>>))]
     ELSE IF ~Truthy(lifetime)
       THEN sleep(w1, instance_id)
     ELSE IF lifetime = prod_infra
       THEN [create_tags(w1, instance_id, prod_infra) EXCEPT !.done = TRUE]
     ELSE IF lifetime_match.none
       THEN [terminate_and_print(w1, instance_id, "Invalid lifetime value supplied", livemode)
               EXCEPT !.done = TRUE]
     ELSE IF lifetime_delta.err # "none"
       THEN [w1 EXCEPT !.done = TRUE, !.raised = lifetime_delta.err]
     ELSE [create_tags(w1, instance_id,
                       isoformat([aware |-> start.aware, t |-> start.t + timedelta_ticks(lifetime_delta)]))
             EXCEPT !.done = TRUE,
                    !.log = Append(@, LogLine("'termination_date' tag created!",
                                              "", <<instance_id>>))]

\* one pass of the while loop of wait_for_tags: the load and what follows it
poll(w, instance_id, start, livemode, sched) ==
  LET w1 == load(w, instance_id, sched)
  IN decide(w1, w1.prov[instance_id].tags, instance_id, start, livemode)

\* the while loop and what follows it: the instance is terminated when the
\* loop ends without a return (the message names self.wait_time minutes)
RECURSIVE wait_loop(_, _, _, _, _, _)
wait_loop(w, instance_id, start, timeout, livemode, sched) ==
  IF w.done THEN w
  ELSE IF timenow_with_utc(w.clock).t < timeout
    THEN wait_loop(poll(w, instance_id, start, livemode, sched),
                   instance_id, start, timeout, livemode, sched)
  ELSE [terminate_and_print(w, instance_id,
          "No termination_date found within {0} minutes of creation", livemode)
          EXCEPT !.done = TRUE]

\* the state of one call of the enforcer: provider, call log, clock, number
\* of polls, the value wait_for_tags returned, the lines printed
NewWait(prov, clock) ==
  [prov |-> prov, calls |-> <<>>, raised |-> "none", output |-> NoOutput,
   clock |-> clock, polls |-> 0, done |-> FALSE, returned |-> None, log |-> <<>>]

wait_for_tags(w, instance_id, wait_time, livemode, sched) ==
  LET start == timenow_with_utc(w.clock)
      timeout == wait_timeout(start.t, wait_time)
  IN wait_loop(w, instance_id, start, timeout, livemode, sched)

\* ResourceReaper.__init__: self.wait_time = 4
wait_time_of_reaper == 4

\* the handler of the creation event
enforce(prov, instance_id, env, clock, sched) ==
  LET livemode == LIVEMODE(env)
      w0 == [NewWait(prov, clock) EXCEPT
               !.log = <<LogLine("event", "", <<instance_id>>),
                         LogLine("instance-id", "", <<instance_id>>)>>]
      w1 == wait_for_tags(w0, instance_id, wait_time_of_reaper, livemode, sched)
      w2 == IF w1.raised = "none" /\ Truthy(w1.returned)
              THEN LET v == validate_ec2_termination_date(
                              [w1 EXCEPT !.output = NoOutput], instance_id, livemode, w1.clock)
                   IN IF v.raised = "none" THEN [v EXCEPT !.log = Append(@, v.output)] ELSE v
              ELSE w1
  IN IF w2.raised # "none"
       \* the except clause: report the state unless it is pending, re-raise
       THEN (IF w2.prov[instance_id].state # "pending"
               THEN [w2 EXCEPT !.log = Append(@, LogLine(
                       "This unexpected exception should be investigated!",
                       w2.prov[instance_id].state, <<instance_id>>))]
               ELSE w2)
       ELSE [w2 EXCEPT !.log = Append(@, LogLine("Schema successfully enforced.",
                                                 "", <<instance_id>>))]

(* ---------------------------------------------------------------------- *)
(* State                                                                   *)
(* ---------------------------------------------------------------------- *)
VARIABLES
  now,        \* the provider-independent UTC clock
  provider,   \* resource id -> the resource as the provider holds it
  last,       \* the operation that ran last, with the livemode it ran under
  calls,      \* the provider calls that operation issued, in order
  outcome,    \* kind -> the dict returned for that kind by that operation
  raised,     \* the exception that operation ended with, or "none"
  log         \* the status lines that operation printed

vars == <<now, provider, last, calls, outcome, raised, log>>

Init ==
  /\ now = 1
  /\ provider \in Worlds
  /\ last = [op |-> "none", arg |-> "none", livemode |-> FALSE, environ |-> EnvUnset]
  /\ calls = <<>>
  /\ outcome = <<>>
  /\ raised = "none"
  /\ log = <<>>

\* the engine is called on the collections the world holds resources of
PresentKinds == {provider[i].kind : i \in Ids}

\* time passes
Tick ==
  /\ now < MaxTime
  /\ now' = now + 1
  /\ UNCHANGED <<provider, last, calls, outcome, raised, log>>

\* the scheduled handler, started in a process whose environment is env
resource_reaper ==
  \E lm \in {LIVEMODE(e) : e \in EnvValues} :
  \E R \in {reap_services(NewRun(provider), Services, lm, now)} :
  \E env \in {e \in EnvValues : LIVEMODE(e) = lm} :
    /\ provider' = R.prov
    /\ calls' = R.calls
    /\ outcome' = R.outcome
    /\ raised' = R.raised
    /\ log' = R.log
    /\ last' = [op |-> "resource_reaper", arg |-> "all", livemode |-> lm, environ |-> env]
    /\ UNCHANGED now

\* ResourceReaper(service, livemode).terminate_expired_ec2_resources(resource)
SweepEc2Resources ==
  \E resource \in Ec2Kinds \cap PresentKinds, livemode \in BOOLEAN :
    \E acc \in {terminate_expired_ec2_resources(provider, <<>>, resource, livemode, now)} :
    /\ provider' = acc.prov
    /\ calls' = acc.calls
    /\ raised' = acc.raised
    /\ outcome' = IF acc.raised = "none" THEN (resource :> Ec2Data(acc)) ELSE <<>>
    /\ log' = <<>>
    /\ last' = [op |-> "terminate_expired_ec2_resources", arg |-> resource,
                livemode |-> livemode, environ |-> EnvUnset]
    /\ UNCHANGED now

\* ResourceReaper(service, livemode).terminate_expired_load_balancers()
SweepLoadBalancers ==
  \E service \in {"elb", "elbv2"} \cap PresentKinds, livemode \in BOOLEAN :
    \E acc \in {terminate_expired_load_balancers(provider, <<>>, service, livemode, now)} :
    /\ provider' = acc.prov
    /\ calls' = acc.calls
    /\ raised' = acc.raised
    /\ outcome' = IF acc.raised = "none" THEN (service :> ElbData(acc)) ELSE <<>>
    /\ log' = <<>>
    /\ last' = [op |-> "terminate_expired_load_balancers", arg |-> service,
                livemode |-> livemode, environ |-> EnvUnset]
    /\ UNCHANGED now

\* ResourceReaper(service, livemode).terminate_expired_target_groups()
SweepTargetGroups ==
  \E resource \in {"target_groups"} \cap PresentKinds, livemode \in BOOLEAN :
    \E acc \in {terminate_expired_target_groups(provider, <<>>, livemode, now)} :
    /\ provider' = acc.prov
    /\ calls' = acc.calls
    /\ raised' = acc.raised
    /\ outcome' = IF acc.raised = "none" THEN ("target_groups" :> ElbData(acc)) ELSE <<>>
    /\ log' = <<>>
    /\ last' = [op |-> "terminate_expired_target_groups", arg |-> "target_groups",
                livemode |-> livemode, environ |-> EnvUnset]
    /\ UNCHANGED now

\* ResourceReaper(service, livemode).validate_ec2_termination_date(instance),
\* called as enforce calls it: on an instance whose termination_date tag
\* wait_for_tags found to be set
ValidateTerminationDate ==
  \E instance_id \in Ids, livemode \in BOOLEAN :
    /\ provider[instance_id].kind = "instances"
    /\ provider[instance_id].state = "running"
    /\ get_tag(provider[instance_id].tags, "termination_date") \notin {None, [form |-> "empty", t |-> 0]}
    /\ \E w \in {validate_ec2_termination_date(
                   [prov |-> provider, calls |-> <<>>, raised |-> "none", output |-> NoOutput],
                   instance_id, livemode, now)} :
         /\ provider' = w.prov
         /\ calls' = w.calls
         /\ raised' = w.raised
         /\ outcome' = <<>>
         /\ log' = IF w.raised = "none" THEN <<w.output>> ELSE <<>>
         /\ last' = [op |-> "validate_ec2_termination_date", arg |-> instance_id,
                     livemode |-> livemode, environ |-> EnvUnset]
    /\ UNCHANGED now

Next ==
  \/ Tick
  \/ ValidateTerminationDate
  \/ resource_reaper
  \/ SweepEc2Resources
  \/ SweepLoadBalancers
  \/ SweepTargetGroups

Spec == Init /\ [][Next]_vars


(* ---------------------------------------------------------------------- *)
(* The enforcer's world and steps                                          *)
(* ---------------------------------------------------------------------- *)
\* the tag value 'indefinite' and the empty tag value
Indefinite == [form |-> "indefinite", t |-> 0]
Empty == [form |-> "empty", t |-> 0]

\* lifetime tags: shorthands the pattern accepts, strings it rejects, the
\* sentinel and the empty string
ValidLifetimes ==
  {<<"1", "m">>, <<"2", "h">>, <<"1", "d">>, <<"1", "w">>, <<"1", "0", "m">>, <<"0", "m">>}
InvalidLifetimes ==
  {<<"2", "t">>, <<"h">>, <<"1", "2">>, <<"-", "1", "h">>, <<"2", "H">>}
LifetimeStrings ==
  {Text(cs) : cs \in ValidLifetimes \cup InvalidLifetimes}
    \cup {Indefinite, Empty}

\* Name tags: one of an OpsWorks instance, one of any other
Chars_opsworks == <<"o", "p", "s", "w", "o", "r", "k", "s">>
NameStrings == {Text(Chars_opsworks \o <<"-", "1">>), Text(<<"w", "e", "b">>)}

\* the tag array with the three tags in the order they were set
TagList(termination_date, lifetime, name) ==
  [none |-> FALSE,
   list |-> (IF termination_date = None THEN <<>>
             ELSE <<[Key |-> "termination_date", Value |-> termination_date]>>)
         \o (IF lifetime = None THEN <<>> ELSE <<[Key |-> "lifetime", Value |-> lifetime]>>)
         \o (IF name = None THEN <<>> ELSE <<[Key |-> "Name", Value |-> name]>>)]

\* the tags of a new instance: a termination_date set by hand next to some
\* lifetime, or none (or an empty one) next to any lifetime and name
EnforcerTagArrays ==
  {NoTags}
    \cup {TagList(td, lt, nm) :
            td \in TagStrings \ {Empty},
            lt \in {None, Indefinite, Text(<<"2", "h">>), Text(<<"2", "t">>)},
            nm \in {None, Text(Chars_opsworks \o <<"-", "1">>)}}
    \cup {TagList(td, lt, nm) :
            td \in {None, Empty},
            lt \in {None} \cup LifetimeStrings,
            nm \in {None} \cup NameStrings}

\* r1 is the instance of the creation event, r2 a running instance nobody
\* has tagged
EnforcerWorlds ==
  {[i \in Ids |->
      IF i = "r1"
        THEN [kind |-> "instances", tags |-> tg, state |-> "pending",
              associations |-> <<>>, attachments |-> <<>>, is_default |-> FALSE]
        ELSE [kind |-> "instances", tags |-> NoTags, state |-> "running",
              associations |-> <<>>, attachments |-> <<>>, is_default |-> FALSE]] :
     tg \in EnforcerTagArrays}

\* the value a tag array holds for a key (None when it holds none)
TagValue(tag_array, key) ==
  LET hits == {n \in 1..Len(tag_array.list) : tag_array.list[n].Key = key}
  IN IF hits = {} THEN None
     ELSE tag_array.list[CHOOSE n \in hits : \A m \in hits : n <= m].Value

\* the tags the owner sets while the enforcer waits
LaterTags ==
  {[Key |-> "termination_date", Value |-> v] :
     v \in {Indefinite, [form |-> "naive", t |-> 0], [form |-> "aware", t |-> 0],
            [form |-> "aware", t |-> MaxTime]}}
    \cup {[Key |-> "lifetime", Value |-> v] :
            v \in {Indefinite, Text(<<"2", "h">>), Text(<<"1", "m">>), Text(<<"2", "t">>)}}

\* what the owner may do while the enforcer waits: nothing, or set one tag,
\* termination_date or lifetime, before a later poll (a first poll that
\* finds a value in either tag decides at once, so no later poll sees a change)
Schedules(tag_array, wait_time) ==
  {NoChange} \cup
  (IF Truthy(TagValue(tag_array, "termination_date")) \/ Truthy(TagValue(tag_array, "lifetime"))
     THEN {}
     ELSE {[at |-> k, tags |-> UpsertTag(tag_array, tag)] :
             k \in 2..(wait_time * MinuteTicks), tag \in LaterTags})

WaitTimes == {0, 1, wait_time_of_reaper}

EnforcerInit ==
  /\ now = 1
  /\ provider \in EnforcerWorlds
  /\ last = [op |-> "none", arg |-> "none", livemode |-> FALSE, environ |-> EnvUnset,
             wait_time |-> 0, start |-> 0]
  /\ calls = <<>>
  /\ outcome = <<>>
  /\ raised = "none"
  /\ log = <<>>

\* ResourceReaper(service, livemode).wait_for_tags(instance), with the
\* wait_time the object holds
WaitForTags ==
  \E instance_id \in Ids, livemode \in BOOLEAN, wait_time \in WaitTimes :
    /\ now <= MaxTime
    /\ provider[instance_id].state = "pending"
    /\ \E sched \in Schedules(provider[instance_id].tags, wait_time) :
       \E w \in {wait_for_tags(NewWait(provider, now), instance_id, wait_time,
                               livemode, sched)} :
         /\ sched.at <= w.polls
         /\ provider' = w.prov
         /\ calls' = w.calls
         /\ raised' = w.raised
         /\ outcome' = ("wait_for_tags" :> [returned |-> w.returned, polls |-> w.polls])
         /\ log' = w.log
         /\ now' = w.clock
         /\ last' = [op |-> "wait_for_tags", arg |-> instance_id, livemode |-> livemode,
                     environ |-> EnvUnset, wait_time |-> wait_time, start |-> now]

\* the handler enforce, started by the creation event of an instance in a
\* process whose environment is env
EnforceEvent ==
  \E instance_id \in Ids :
    /\ now <= MaxTime
    /\ provider[instance_id].state = "pending"
    /\ \E sched \in Schedules(provider[instance_id].tags, wait_time_of_reaper) :
       \E lm \in {LIVEMODE(e) : e \in EnvValues} :
       \E w \in {enforce(provider, instance_id,
                         CHOOSE e \in EnvValues : LIVEMODE(e) = lm, now, sched)} :
       \E env \in {e \in EnvValues : LIVEMODE(e) = lm} :
         /\ sched.at <= w.polls
         /\ provider' = w.prov
         /\ calls' = w.calls
         /\ raised' = w.raised
         /\ outcome' = ("wait_for_tags" :> [returned |-> w.returned, polls |-> w.polls])
         /\ log' = w.log
         /\ now' = w.clock
         /\ last' = [op |-> "enforce", arg |-> instance_id, livemode |-> lm,
                     environ |-> env, wait_time |-> wait_time_of_reaper, start |-> now]

EnforcerNext ==
  \/ Tick
  \/ WaitForTags
  \/ EnforceEvent

EnforcerSpec == EnforcerInit /\ [][EnforcerNext]_vars

(* ---------------------------------------------------------------------- *)
(* wait_for_tags step by step: the load, the pass on the loaded tags and   *)
(* the end of the loop are steps of their own, and whoever else holds the  *)
(* instance writes its tags between them                                   *)
(* ---------------------------------------------------------------------- *)
\* the tags of the new instance: none, an empty lifetime, a termination_date
\* set by hand, a lifetime of each kind
PollingTagArrays ==
  {NoTags, TagList(None, Empty, None),
   TagList([form |-> "aware", t |-> 0], None, None),
   TagList(None, Text(<<"2", "h">>), None),
   TagList(None, Text(<<"2", "t">>), None),
   TagList(None, Indefinite, None)}

\* the tags another writer sets meanwhile
OtherWrites ==
  {[Key |-> "termination_date", Value |-> [form |-> "aware", t |-> MaxTime]],
   [Key |-> "lifetime", Value |-> Text(<<"1", "m">>)],
   [Key |-> "lifetime", Value |-> Text(<<"2", "t">>)],
   [Key |-> "lifetime", Value |-> Indefinite]}

PollingInit ==
  /\ now = 1
  /\ provider \in {w \in EnforcerWorlds : w["r1"].tags \in PollingTagArrays}
  /\ last = [op |-> "none", arg |-> "none", livemode |-> FALSE, environ |-> EnvUnset,
             wait_time |-> 0, start |-> 0]
  /\ calls = <<>>
  /\ outcome = <<>>
  /\ raised = "none"
  /\ log = <<>>

\* the call in progress, as the record the operators work on
Waiting ==
  [prov |-> provider, calls |-> calls, raised |-> raised, output |-> outcome.output,
   clock |-> now, polls |-> outcome.polls, done |-> FALSE, returned |-> None,
   log |-> log]

\* while timenow_with_utc() < timeout
InBudget == timenow_with_utc(now).t < wait_timeout(last.start, last.wait_time)

\* the call of wait_for_tags is in its loop; it has returned
InLoop == last.op = "wait_for_tags" /\ outcome.pc \in {"while", "loaded"}
WaitReturned == last.op = "wait_for_tags" /\ outcome.pc = "returned"

\* start = self.timenow_with_utc(); timeout = start + timedelta(minutes=self.wait_time)
EnterWait ==
  \E instance_id \in Ids, livemode \in BOOLEAN, wait_time \in WaitTimes :
    /\ last.op = "none"
    /\ provider[instance_id].state = "pending"
    /\ last' = [op |-> "wait_for_tags", arg |-> instance_id, livemode |-> livemode,
                environ |-> EnvUnset, wait_time |-> wait_time, start |-> now]
    /\ outcome' = [pc |-> "while", tags |-> NoTags, polls |-> 0, returned |-> None,
                   output |-> NoOutput]
    /\ UNCHANGED <<now, provider, calls, raised, log>>

\* ec2_instance.load() at the head of a pass: the instance object holds the
\* tags of this moment until the next load
LoadTags ==
  /\ last.op = "wait_for_tags"
  /\ outcome.pc = "while"
  /\ InBudget
  /\ \E w \in {load(Waiting, last.arg, NoChange)} :
       /\ calls' = w.calls
       /\ outcome' = [outcome EXCEPT !.pc = "loaded", !.polls = w.polls,
                                     !.tags = provider[last.arg].tags]
  /\ UNCHANGED <<now, provider, last, raised, log>>

\* the rest of the pass, on the tags the instance object holds
DecideOnTags ==
  /\ last.op = "wait_for_tags"
  /\ outcome.pc = "loaded"
  /\ \E w \in {decide(Waiting, outcome.tags, last.arg,
                      timenow_with_utc(last.start), last.livemode)} :
       /\ provider' = w.prov
       /\ calls' = w.calls
       /\ raised' = w.raised
       /\ log' = w.log
       /\ now' = w.clock
       /\ outcome' = [outcome EXCEPT !.pc = IF w.done THEN "returned" ELSE "while",
                                     !.returned = w.returned, !.output = w.output]
  /\ UNCHANGED last

\* the loop ends without a return: terminate_instance and return
GiveUp ==
  /\ last.op = "wait_for_tags"
  /\ outcome.pc = "while"
  /\ ~InBudget
  /\ \E w \in {terminate_and_print(Waiting, last.arg,
                 "No termination_date found within {0} minutes of creation",
                 last.livemode)} :
       /\ provider' = w.prov
       /\ calls' = w.calls
       /\ raised' = w.raised
       /\ log' = w.log
       /\ outcome' = [outcome EXCEPT !.pc = "returned", !.output = w.output]
  /\ UNCHANGED <<now, last>>

\* another writer of the instance's tags (its owner, or another invocation
\* of the enforcer) sets a tag that has no value yet while this call is in
\* its loop
OtherWriter ==
  /\ last.op = "wait_for_tags"
  /\ outcome.pc \in {"while", "loaded"}
  /\ \E tag \in OtherWrites :
       /\ ~Truthy(TagValue(provider[last.arg].tags, tag.Key))
       /\ provider' = [provider EXCEPT ![last.arg].tags = UpsertTag(@, tag)]
  /\ UNCHANGED <<now, last, calls, outcome, raised, log>>

PollingNext == EnterWait \/ LoadTags \/ DecideOnTags \/ GiveUp \/ OtherWriter

\* the invocation runs on: sleep and the provider's calls return
PollingSpec ==
  /\ PollingInit
  /\ [][PollingNext]_vars
  /\ WF_vars(LoadTags)
  /\ WF_vars(DecideOnTags)
  /\ WF_vars(GiveUp)

(* ---------------------------------------------------------------------- *)
(* A sweep of the instances that runs while wait_for_tags polls: the two   *)
(* are separate invocations on the same provider                           *)
(* ---------------------------------------------------------------------- *)
\* the provider starts the instance of the creation event
InstanceRuns ==
  /\ last.op \in {"none", "wait_for_tags"}
  /\ \E i \in Ids :
       /\ provider[i].state = "pending"
       /\ provider' = [provider EXCEPT ![i].state = "running"]
  /\ UNCHANGED <<now, last, calls, outcome, raised, log>>

\* ResourceReaper(service, livemode).terminate_expired_ec2_resources("instances")
\* in another invocation, start to end between two steps of the enforcer;
\* its calls join the call log, its dict and its exception are its own
SweepOverlaps ==
  /\ InLoop
  /\ \E livemode \in BOOLEAN :
     \E acc \in {terminate_expired_ec2_resources(provider, calls, "instances",
                                                 livemode, now)} :
       /\ acc.calls # calls
       /\ provider' = acc.prov
       /\ calls' = acc.calls
  /\ UNCHANGED <<now, last, outcome, raised, log>>

OverlapNext == PollingNext \/ InstanceRuns \/ SweepOverlaps

OverlapSpec == PollingInit /\ [][OverlapNext]_vars

(* ---------------------------------------------------------------------- *)
(* Vocabulary of the properties                                            *)
(* ---------------------------------------------------------------------- *)
SweepOps == {"resource_reaper", "terminate_expired_ec2_resources",
             "terminate_expired_load_balancers", "terminate_expired_target_groups"}

\* the kinds an operation sweeps
SweptKinds(l) ==
  IF l.op = "resource_reaper" THEN Kinds
  ELSE IF l.op \in SweepOps THEN {l.arg}
  ELSE {}

\* the value the provider holds for the termination_date tag of resource i
TerminationDate(prov, i) ==
  LET list == prov[i].tags.list
      hits == {n \in 1..Len(list) : list[n].Key = "termination_date"}
  IN IF hits = {} THEN None
     ELSE list[CHOOSE n \in hits : \A m \in hits : n <= m].Value

\* the provider lists resource i to a sweep of its kind
Listed(prov, i) ==
  \E n \in 1..Len(ListResources(prov, prov[i].kind)) :
    ListResources(prov, prov[i].kind)[n] = i

\* a step of a sweep that covers the kind of resource i and is handed i
SweepCovers(i) ==
  /\ now' = now
  /\ last'.op \in SweepOps
  /\ provider[i].kind \in SweptKinds(last')
  /\ Listed(provider, i)

\* the positions of the calls issued on resource i
CallsOn(cs, i) == {n \in 1..Len(cs) : cs[n].id = i}
DestructiveCallsOn(cs, i) == {n \in CallsOn(cs, i) : cs[n].op \in DestructiveOps}
IssuesNothingDestructive(cs) == \A n \in 1..Len(cs) : cs[n].op \notin DestructiveOps

\* resource i is in list f of a returned dict
Recorded(out, f, i) ==
  \E k \in DOMAIN out :
    /\ f \in DOMAIN out[k]
    /\ \E n \in 1..Len(out[k][f]) : out[k][f][n] = i
RecordedAnywhere(out, i) ==
  \E f \in {"deleted", "stopped", "improperly_tagged"} : Recorded(out, f, i)

(* ---------------------------------------------------------------------- *)
(* The notifier: the lines resource_reaper prints, as text, and the colour *)
(* slack_notifier gives a line                                             *)
(* ---------------------------------------------------------------------- *)
\* the message templates of reaper.py, cut at their {0} and {1}

LIVE_TERMINATION_MESSAGE_0 ==
  <<"R", "E", "A", "P", "E", "R", " ", "T", "E", "R", "M", "I", "N", "A",
    "T", "E", "D", " ">>

LIVE_TERMINATION_MESSAGE_1 ==
  <<" ", "w", "i", "t", "h", " ", "i", "d", "s", " ">>

LIVE_TERMINATION_MESSAGE_2 ==
  <<" ", "d", "u", "e", " ", "t", "o", " ", "e", "x", "p", "i", "r", "e",
    "d", " ", "t", "e", "r", "m", "i", "n", "a", "t", "i", "o", "n", "_",
    "d", "a", "t", "e", " ", "t", "a", "g", "s">>

NOOP_TERMINATION_MESSAGE_0 ==
  <<"R", "E", "A", "P", "E", "R", " ", "N", "O", "O", "P", ":", " ", "W",
    "o", "u", "l", "d", " ", "h", "a", "v", "e", " ", "t", "e", "r", "m",
    "i", "n", "a", "t", "e", "d", " ">>

NOOP_TERMINATION_MESSAGE_1 ==
  <<" ", "w", "i", "t", "h", " ", "i", "d", "s", " ">>

NOOP_TERMINATION_MESSAGE_2 ==
  <<" ", "d", "u", "e", " ", "t", "o", " ", "e", "x", "p", "i", "r", "e",
    "d", " ", "t", "e", "r", "m", "i", "n", "a", "t", "i", "o", "n", "_",
    "d", "a", "t", "e", " ", "t", "a", "g", "s">>

STOPPED_MESSAGE_0 ==
  <<"R", "E", "A", "P", "E", "R", " ", "S", "T", "O", "P", "P", "E", "D",
    " ">>

STOPPED_MESSAGE_1 ==
  <<" ", "w", "i", "t", "h", " ", "i", "d", "s", " ">>

STOPPED_MESSAGE_2 ==
  <<" ", "d", "u", "e", " ", "t", "o", " ", "m", "i", "s", "s", "i", "n",
    "g", " ", "o", "r", " ", "u", "n", "p", "a", "r", "s", "a", "b", "l",
    "e", " ", "t", "e", "r", "m", "i", "n", "a", "t", "i", "o", "n", "_",
    "d", "a", "t", "e", " ", "t", "a", "g">>

NOOP_STOPPED_0 ==
  <<"R", "E", "A", "P", "E", "R", " ", "N", "O", "O", "P", ":", " ", "W",
    "o", "u", "l", "d", " ", "h", "a", "v", "e", " ", "s", "t", "o", "p",
    "p", "e", "d", " ">>

NOOP_STOPPED_1 ==
  <<" ", "w", "i", "t", "h", " ", "i", "d", "s", " ">>

NOOP_STOPPED_2 ==
  <<" ", "d", "u", "e", " ", "t", "o", " ", "m", "i", "s", "s", "i", "n",
    "g", " ", "o", "r", " ", "u", "n", "p", "a", "r", "s", "a", "b", "l",
    "e", " ", "t", "e", "r", "m", "i", "n", "a", "t", "i", "o", "n", "_",
    "d", "a", "t", "e", " ", "t", "a", "g">>

IMPROPER_TAGS_0 ==
  <<"R", "E", "A", "P", "E", "R", " ", "F", "O", "U", "N", "D", " ">>

IMPROPER_TAGS_1 ==
  <<" ", "w", "i", "t", "h", " ", "i", "d", "s", " ">>

IMPROPER_TAGS_2 ==
  <<" ", "a", "r", "e", " ", "m", "i", "s", "s", "i", "n", "g", " ", "t",
    "e", "r", "m", "i", "n", "a", "t", "i", "o", "n", "_", "d", "a", "t",
    "e", " ", "t", "a", "g", "s", "!">>

MessageTemplates ==
  ("LIVE_TERMINATION_MESSAGE" :>
     <<LIVE_TERMINATION_MESSAGE_0, LIVE_TERMINATION_MESSAGE_1, LIVE_TERMINATION_MESSAGE_2>>) @@
  ("NOOP_TERMINATION_MESSAGE" :>
     <<NOOP_TERMINATION_MESSAGE_0, NOOP_TERMINATION_MESSAGE_1, NOOP_TERMINATION_MESSAGE_2>>) @@
  ("STOPPED_MESSAGE" :> <<STOPPED_MESSAGE_0, STOPPED_MESSAGE_1, STOPPED_MESSAGE_2>>) @@
  ("NOOP_STOPPED" :> <<NOOP_STOPPED_0, NOOP_STOPPED_1, NOOP_STOPPED_2>>) @@
  ("IMPROPER_TAGS" :> <<IMPROPER_TAGS_0, IMPROPER_TAGS_1, IMPROPER_TAGS_2>>)

\* the names resource_reaper puts in {0}: resource, service + "s",
\* "target_groups" and "target_group"
WhatChars ==
  ResourceChars @@
  ("elbs" :> <<"e", "l", "b", "s">>) @@
  ("elbv2s" :> <<"e", "l", "b", "v", "2", "s">>) @@
  ("target_groups" :> <<"t", "a", "r", "g", "e", "t", "_", "g", "r", "o", "u", "p", "s">>) @@
  ("target_group" :> <<"t", "a", "r", "g", "e", "t", "_", "g", "r", "o", "u", "p">>)

\* the characters of the resource ids
IdChars == ("r1" :> <<"r", "1">>) @@ ("r2" :> <<"r", "2">>)

\* str() of a list of ids: ['r1', 'r2']
RECURSIVE list_items(_)
list_items(ids) ==
  IF ids = <<>> THEN <<>>
  ELSE <<"'">> \o IdChars[Head(ids)] \o <<"'">>
         \o (IF Tail(ids) = <<>> THEN <<>> ELSE <<",", " ">> \o list_items(Tail(ids)))
list_str(ids) == <<"[">> \o list_items(ids) \o <<"]">>

\* TEMPLATE.format(what, ids)
format(template, what, ids) ==
  MessageTemplates[template][1] \o WhatChars[what] \o MessageTemplates[template][2]
    \o list_str(ids) \o MessageTemplates[template][3]

Chars_STOPPED ==
  <<"S", "T", "O", "P", "P", "E", "D">>

Chars_FOUND ==
  <<"F", "O", "U", "N", "D">>

Chars_Terminator ==
  <<"T", "e", "r", "m", "i", "n", "a", "t", "o", "r">>

\* is_red_alert with the case of the letters ignored
is_red_alert_any_case(message) == StrContains(StrLower(Chars_STOPPED), StrLower(message))

\* bool("STOPPED" in message)
is_red_alert(message) == StrContains(Chars_STOPPED, message)

\* bool("FOUND" in message)
is_missing_tag(message) == StrContains(Chars_FOUND, message)

\* determine_message_color(event, message), event["logGroup"] = logGroup
determine_message_color(logGroup, message) ==
  IF is_red_alert(message) THEN "#ff0000"
  ELSE IF is_missing_tag(message) THEN "#ff7f50"
  ELSE IF StrContains(Chars_Terminator, logGroup) THEN "#33cc33"
  ELSE "#ffff00"

LogGroup_Terminator ==
  <<"/", "a", "w", "s", "/", "l", "a", "m", "b", "d", "a", "/", "T", "e",
    "r", "m", "i", "n", "a", "t", "o", "r">>

LogGroup_Enforcer ==
  <<"/", "a", "w", "s", "/", "l", "a", "m", "b", "d", "a", "/", "S", "c",
    "h", "e", "m", "a", "E", "n", "f", "o", "r", "c", "e", "r">>

Line_enforced ==
  <<"S", "c", "h", "e", "m", "a", " ", "s", "u", "c", "c", "e", "s", "s",
    "f", "u", "l", "l", "y", " ", "e", "n", "f", "o", "r", "c", "e", "d",
    ".">>

Line_both ==
  <<"F", "O", "U", "N", "D", " ", "a", "n", "d", " ", "S", "T", "O", "P",
    "P", "E", "D">>

Line_both_reversed ==
  <<"S", "T", "O", "P", "P", "E", "D", ",", " ", "n", "o", "t", " ", "F",
    "O", "U", "N", "D">>

Line_lower ==
  <<"f", "o", "u", "n", "d", " ", "a", "n", "d", " ", "s", "t", "o", "p",
    "p", "e", "d">>

Line_inside ==
  <<"U", "N", "S", "T", "O", "P", "P", "E", "D", " ", "N", "O", "T", "F",
    "O", "U", "N", "D">>

Line_inside_found ==
  <<"P", "R", "O", "F", "O", "U", "N", "D">>

Line_cut ==
  <<"S", "T", "O", "P", "P", "E", " ", "F", "O", "U", "N">>
(* ---------------------------------------------------------------------- *)
(* The parsers on their own: determine_live_mode on an environment and     *)
(* validate_lifetime_value on a string                                     *)
(* ---------------------------------------------------------------------- *)
Chars_true == <<"t", "r", "u", "e">>
Chars_false == <<"f", "a", "l", "s", "e">>

\* 'true' in every mix of cases
TrueSpellings ==
  {[i \in 1..4 |-> IF i \in up THEN ToUpper(Chars_true[i]) ELSE Chars_true[i]] :
     up \in SUBSET (1..4)}

\* values of LIVEMODE: the spellings of 'true', alone, followed by a newline
\* or by another character, preceded by one, and other words
LiveModeValues ==
  TrueSpellings
    \cup {v \o <<"\n">> : v \in TrueSpellings}
    \cup {v \o <<"x">> : v \in TrueSpellings}
    \cup {<<" ">> \o v : v \in TrueSpellings}
    \cup {<<>>, Chars_false, <<"1">>, <<"y", "e", "s">>, <<"\n">>,
          <<"t", "r", "u", "e", "\n", "\n">>, <<"\n", "t", "r", "u", "e">>,
          <<"t", "r", "u", "e", " ">>, <<"t", "r", "u">>}

\* os.environ: a mapping from the names that are set to their values
EnvNames == {"LIVEMODE", "LIVE_MODE", "NO_LIVE_MODE"}
Environs ==
  UNION {{e \in [names -> LiveModeValues] :
            \A n \in names \ {"LIVEMODE"} : e[n] \in {Chars_true, Chars_false}} :
         names \in SUBSET EnvNames}

\* "LIVEMODE" in os.environ, os.environ["LIVEMODE"]
environ_LIVEMODE(os_environ) ==
  IF "LIVEMODE" \in DOMAIN os_environ
    THEN [set |-> TRUE, value |-> os_environ["LIVEMODE"]]
    ELSE EnvUnset

\* the strings of up to n characters over an alphabet
StringsUpTo(alphabet, n) == UNION {[1..k -> alphabet] : k \in 0..n}

LifetimeAlphabet == {"0", "1", "2", "w", "d", "h", "m", "t", "-", "\n"}
LifetimeInputs == StringsUpTo(LifetimeAlphabet, MaxLen) \cup {Chars_indefinite}

\* the tuples handed to calculate_lifetime_delta: lengths around the carries
\* of minutes, hours and days and around the largest timedelta, and units
\* in and out of w, d, h, m
LifetimeLengths ==
  {0, 1, 2, 23, 24, 25, 59, 60, 1439, 1440, 1441,
   142857142, 142857143, 999999999, 1000000000}
LifetimeUnits == {"w", "d", "h", "m", "t", "s", "y", "W", ""}
LifetimeTuples ==
  {[none |-> FALSE, length |-> n, unit |-> u] : n \in LifetimeLengths, u \in LifetimeUnits}

\* the tag arrays handed to get_tag: None, [] and the lists of up to MaxTags
\* tags
GetTagKeys == {"termination_date", "lifetime", "Name"}
GetTagValues == {[form |-> "junk", t |-> 0], [form |-> "indefinite", t |-> 0]}
GetTagArrays ==
  {NoTags} \cup
  {[none |-> FALSE, list |-> l] :
     l \in UNION {[1..k -> [Key : GetTagKeys, Value : GetTagValues]] : k \in 0..MaxTags}}

\* the lines handed to the notifier: the lines resource_reaper prints and
\* lines with the words in other places and cases
ReaperLines ==
  {format(template, what, ids) :
     template \in DOMAIN MessageTemplates,
     what \in {"instances", "vpcs", "elbv2s", "target_group"},
     ids \in {<<"r1">>, <<"r1", "r2">>}}
NotifierLines ==
  ReaperLines \cup {<<>>, Line_enforced, Line_both, Line_both_reversed, Line_lower,
                    Line_inside, Line_inside_found, Line_cut}
LogGroups == {LogGroup_Terminator, LogGroup_Enforcer}

\* the call that is about to be made: the function and its input
ParserCalls ==
  {[function |-> "determine_live_mode", os_environ |-> e] : e \in Environs}
    \cup {[function |-> "validate_lifetime_value", lifetime_value |-> v] :
            v \in LifetimeInputs}
    \cup {[function |-> "calculate_lifetime_delta", lifetime_tuple |-> l] :
            l \in LifetimeTuples}
    \cup {[function |-> "get_tag", tag_array |-> a, tag_name |-> k] :
            a \in GetTagArrays, k \in {"termination_date", "lifetime", "some_tag"}}
    \cup {[function |-> "determine_message_color", logGroup |-> g, message |-> m] :
            g \in LogGroups, m \in NotifierLines}

ParserInit ==
  /\ now = 1
  /\ provider \in {w \in EnforcerWorlds : w["r1"].tags = NoTags}
  /\ last \in {[op |-> "none", arg |-> c, livemode |-> FALSE, environ |-> EnvUnset] :
                 c \in ParserCalls}
  /\ calls = <<>>
  /\ outcome = <<>>
  /\ raised = "none"
  /\ log = <<>>

\* determine_live_mode() under the environment os_environ
DetermineLiveMode ==
  /\ last.op = "none"
  /\ last.arg.function = "determine_live_mode"
  /\ last' = [op |-> "determine_live_mode", arg |-> last.arg.os_environ,
              livemode |-> FALSE, environ |-> environ_LIVEMODE(last.arg.os_environ)]
  /\ outcome' = ("determine_live_mode" :>
                   determine_live_mode(environ_LIVEMODE(last.arg.os_environ)))
  /\ UNCHANGED <<now, provider, calls, raised, log>>

\* ResourceReaper.validate_lifetime_value(lifetime_value)
ValidateLifetimeValue ==
  /\ last.op = "none"
  /\ last.arg.function = "validate_lifetime_value"
  /\ last' = [op |-> "validate_lifetime_value", arg |-> last.arg.lifetime_value,
              livemode |-> FALSE, environ |-> EnvUnset]
  /\ outcome' = ("validate_lifetime_value" :>
                   validate_lifetime_value(last.arg.lifetime_value))
  /\ UNCHANGED <<now, provider, calls, raised, log>>

\* ResourceReaper.calculate_lifetime_delta(lifetime_tuple)
CalculateLifetimeDelta ==
  /\ last.op = "none"
  /\ last.arg.function = "calculate_lifetime_delta"
  /\ last' = [op |-> "calculate_lifetime_delta", arg |-> last.arg.lifetime_tuple,
              livemode |-> FALSE, environ |-> EnvUnset]
  /\ outcome' = ("calculate_lifetime_delta" :>
                   calculate_lifetime_delta(last.arg.lifetime_tuple))
  /\ raised' = calculate_lifetime_delta(last.arg.lifetime_tuple).err
  /\ UNCHANGED <<now, provider, calls, log>>

\* ResourceReaper.get_tag(tag_array, tag_name)
GetTag ==
  /\ last.op = "none"
  /\ last.arg.function = "get_tag"
  /\ last' = [op |-> "get_tag",
              arg |-> [tag_array |-> last.arg.tag_array, tag_name |-> last.arg.tag_name],
              livemode |-> FALSE, environ |-> EnvUnset]
  /\ outcome' = ("get_tag" :> get_tag(last.arg.tag_array, last.arg.tag_name))
  /\ UNCHANGED <<now, provider, calls, raised, log>>

\* slack_notifier.determine_message_color(event, message)
DetermineMessageColor ==
  /\ last.op = "none"
  /\ last.arg.function = "determine_message_color"
  /\ last' = [op |-> "determine_message_color",
              arg |-> [logGroup |-> last.arg.logGroup, message |-> last.arg.message],
              livemode |-> FALSE, environ |-> EnvUnset]
  /\ outcome' = ("determine_message_color" :>
                   determine_message_color(last.arg.logGroup, last.arg.message))
  /\ UNCHANGED <<now, provider, calls, raised, log>>

ParserNext ==
  \/ DetermineLiveMode
  \/ ValidateLifetimeValue
  \/ CalculateLifetimeDelta
  \/ GetTag
  \/ DetermineMessageColor

ParserSpec == ParserInit /\ [][ParserNext]_vars

(* ---------------------------------------------------------------------- *)
(* Properties                                                              *)
(* ---------------------------------------------------------------------- *)

\* C1: an operation run with livemode false issues no stop, terminate,
\* delete, detach or association-delete call and leaves the provider as it
\* was, whatever the kinds and tags of the resources.
DryRunIssuesNothing ==
  [][~last'.livemode =>
       /\ provider' = provider
       /\ IssuesNothingDestructive(calls')]_vars

\* a dry-run sweep that would have deleted one resource and stopped another
DryRunWouldHaveActed ==
  /\ last.op \in SweepOps
  /\ ~last.livemode
  /\ \E k \in DOMAIN outcome :
       /\ "stopped" \in DOMAIN outcome[k]
       /\ outcome[k].deleted # <<>>
       /\ outcome[k].stopped # <<>>
  /\ calls = <<>>

\* C2: the livemode resource_reaper hands to the engine is the value
\* determine_live_mode reads from the LIVEMODE configuration, so a run whose
\* LIVEMODE is unset or not 'true' issues no destructive call.
LiveModeFollowsConfiguration ==
  last.op = "resource_reaper" =>
    /\ last.livemode = determine_live_mode(last.environ)
    /\ (~determine_live_mode(last.environ) => IssuesNothingDestructive(calls))

\* C3: a listed resource whose termination_date is a timezone-aware timestamp
\* ts is deleted (the call issued exactly in live mode) and recorded under
\* 'deleted' if ts <= now, and gets no call and no record if ts > now.
SweepDecidesByTimestamp ==
  [][\A i \in Ids :
       (SweepCovers(i) /\ TerminationDate(provider, i).form = "aware") =>
         IF TerminationDate(provider, i).t <= now
           THEN /\ Recorded(outcome', "deleted", i)
                /\ (last'.livemode <=> DestructiveCallsOn(calls', i) # {})
           ELSE /\ CallsOn(calls', i) = {}
                /\ ~RecordedAnywhere(outcome', i)]_vars

\* C4: a running instance without a termination_date tag is recorded under
\* 'improperly_tagged' and 'stopped' by a sweep of the instances, stopped
\* exactly in live mode, and never terminated or deleted by it.
UntaggedInstanceIsStopped ==
  [][\A i \in Ids :
       (/\ SweepCovers(i)
        /\ provider[i].kind = "instances"
        /\ TerminationDate(provider, i) = None) =>
         /\ Recorded(outcome', "improperly_tagged", i)
         /\ Recorded(outcome', "stopped", i)
         /\ (last'.livemode <=> \E n \in CallsOn(calls', i) : calls'[n].op = "stop")
         /\ \A n \in CallsOn(calls', i) : calls'[n].op \notin {"terminate", "delete"}
         /\ provider'[i].state \in {"running", "stopped"}]_vars

IndefiniteIsExempt ==
  [][\A i \in Ids :
       TerminationDate(provider, i) = prod_infra =>
         /\ provider'[i] = provider[i]
         /\ CallsOn(calls', i) = {}
         /\ ~RecordedAnywhere(outcome', i)]_vars

\* a live sweep of the kind of an indefinite resource returned, the resource
\* still being there
IndefiniteSweptLive ==
  /\ last.op \in SweepOps
  /\ last.livemode
  /\ raised = "none"
  /\ \E i \in Ids :
       /\ TerminationDate(provider, i) = prod_infra
       /\ provider[i].kind \in DOMAIN outcome
       /\ Listed(provider, i)

\* C7: the sweep never raises: whatever the tags, every sweep operation
\* returns, and resource_reaper returns a dict for every kind.
SweepNeverRaises ==
  last.op \in SweepOps =>
    /\ raised = "none"
    /\ (last.op = "resource_reaper" => DOMAIN outcome = Kinds)

InvalidTimestampFailsClosed ==
  [][/\ \A i \in Ids :
          (SweepCovers(i)
             /\ TerminationDate(provider, i).form \in {"naive", "junk", "empty"}) =>
            /\ raised' = "none"
            /\ Recorded(outcome', "improperly_tagged", i)
     /\ (/\ now' = now
         /\ last'.op = "validate_ec2_termination_date"
         /\ TerminationDate(provider, last'.arg).form \in {"naive", "junk"}) =>
           /\ raised' = "none"
           /\ \E n \in 1..Len(log') :
                /\ log'[n].msg = "REAPER TERMINATION"
                /\ log'[n].ids = <<last'.arg>>]_vars

\* C10: a live sweep that is handed an expired route table deletes every
\* association that is not the main one, never the main one, and after them
\* the route table, which then no longer exists.
RouteTableDeletedAfterAssociations ==
  [][\A i \in Ids :
       (/\ SweepCovers(i)
        /\ last'.livemode
        /\ provider[i].kind = "route_tables"
        /\ TerminationDate(provider, i).form = "aware"
        /\ TerminationDate(provider, i).t <= now) =>
         /\ \A a \in 1..Len(provider[i].associations) :
              LET assoc == provider[i].associations[a]
                  deleting == {n \in CallsOn(calls', i) :
                                 /\ calls'[n].op = "delete_association"
                                 /\ calls'[n].arg = assoc.RouteTableAssociationId}
              IN IF assoc.main THEN deleting = {} ELSE deleting # {}
         /\ \E d \in CallsOn(calls', i) :
              /\ calls'[d].op = "delete"
              /\ \A n \in CallsOn(calls', i) :
                   calls'[n].op = "delete_association" => n < d
         /\ provider'[i].state = "deleted"]_vars

\* the sweep reached resource i: it returned, or it issued a call on i
\* before it raised
Reached(i) == raised' = "none" \/ CallsOn(calls', i) # {}

\* resource i carries a timezone-aware termination_date that has passed
Expired(prov, i, clock) ==
  /\ TerminationDate(prov, i).form = "aware"
  /\ TerminationDate(prov, i).t <= clock

\* C11: a live sweep issues no delete call for the default network ACL of a
\* VPC, which stays in place, and deletes an expired network ACL that is not
\* the default one.
DefaultAclNeverDeleted ==
  [][\A i \in Ids :
       (/\ SweepCovers(i)
        /\ last'.livemode
        /\ provider[i].kind = "network_acls"
        /\ Expired(provider, i, now)) =>
         IF provider[i].is_default
           THEN /\ \A n \in CallsOn(calls', i) : calls'[n].op # "delete"
                /\ provider'[i].state = "available"
           ELSE Reached(i) => provider'[i].state = "deleted"]_vars

BlockingConfirmation ==
  /\ \A n \in 1..Len(calls) :
       LET c == calls[n] IN
       /\ c.op = "terminate" =>
            /\ n < Len(calls)
            /\ calls[n + 1] = ProviderCall("wait_instance_terminated", c.id, 0)
       /\ (c.op = "delete" /\ provider[c.id].kind = "elbv2") =>
            /\ n < Len(calls)
            /\ calls[n + 1] = ProviderCall("wait_load_balancers_deleted", c.id, 0)
       /\ c.op = "wait_instance_terminated" =>
            /\ provider[c.id].kind = "instances"
            /\ n > 1
            /\ calls[n - 1] = ProviderCall("terminate", c.id, 0)
       /\ c.op = "wait_load_balancers_deleted" =>
            /\ provider[c.id].kind = "elbv2"
            /\ n > 1
            /\ calls[n - 1] = ProviderCall("delete", c.id, 0)
  /\ \A i \in Ids :
       (/\ last.op \in SweepOps
        /\ last.livemode
        /\ provider[i].kind \in {"instances", "elbv2"}
        /\ Recorded(outcome, "deleted", i)) =>
         \E n \in CallsOn(calls, i) :
           calls[n].op \in {"wait_instance_terminated", "wait_load_balancers_deleted"}

\* the scheduled sweep deleted a v2 load balancer, waited for it, and went on
\* to delete a resource of a kind that is not waited for
WaitedThenWentOn ==
  /\ last.op = "resource_reaper"
  /\ raised = "none"
  /\ \E n \in 1..Len(calls) :
       /\ calls[n].op = "wait_load_balancers_deleted"
       /\ Recorded(outcome, "deleted", calls[n].id)
       /\ n < Len(calls)
       /\ calls[Len(calls)].op = "delete"
       /\ calls[Len(calls)].id # calls[n].id

\* the kinds in the order the scheduled sweep is observed to walk them
SweepOrder == <<"elb", "elbv2", "target_groups">> \o Ec2Resources
Position(kind) == CHOOSE n \in 1..Len(SweepOrder) : SweepOrder[n] = kind

\* the kind a status line reports on
LineKind(what) ==
  CASE what = "elbs" -> "elb"
    [] what = "elbv2s" -> "elbv2"
    [] what = "target_group" -> "target_groups"
    [] OTHER -> what

EnforcerOps == {"wait_for_tags", "enforce"}

\* the polls of the last operation: the positions of its load calls, and
\* what a poll found in a tag
Loads == {n \in 1..Len(calls) : calls[n].op = "load"}
Found(n, key) == TagValue(calls[n].arg, key)

\* the calls of an operation
CallsOf(op) == {n \in 1..Len(calls) : calls[n].op = op}

\* the operation printed a termination with this reason
TerminationLine(reason) ==
  \E n \in 1..Len(log) : log[n].msg = "REAPER TERMINATION" /\ log[n].what = reason

\* the lines enforce's deadline validation prints when it terminates
ValidationReasons ==
  {"The termination_date has passed", "The termination_date requires a UTC offset",
   "Unable to parse the termination_date"}

\* the shorthand <n><unit> and the duration it stands for, in ticks
IsShorthand(cs) ==
  /\ Len(cs) >= 2
  /\ cs[Len(cs)] \in {"w", "d", "h", "m"}
  /\ \A i \in 1..(Len(cs) - 1) : cs[i] \in {Digits[d] : d \in 1..10}
RECURSIVE Number(_)
Number(cs) ==
  IF cs = <<>> THEN 0
  ELSE 10 * Number(SubSeq(cs, 1, Len(cs) - 1))
         + ((CHOOSE d \in 1..10 : Digits[d] = cs[Len(cs)]) - 1)
Duration(cs) ==
  Number(SubSeq(cs, 1, Len(cs) - 1)) *
    (CASE cs[Len(cs)] = "m" -> 4
       [] cs[Len(cs)] = "h" -> 4 * 60
       [] cs[Len(cs)] = "d" -> 4 * 60 * 24
       [] cs[Len(cs)] = "w" -> 4 * 60 * 24 * 7)

\* what the wait phase does once poll n has found a termination_date: it
\* returns that value, polls and sleeps no more, writes no tag, and
\* terminates nothing (a terminate that follows in enforce is the deadline
\* validation's, printed with its reason)
ReturnedAtOnce(n) ==
  /\ outcome["wait_for_tags"].returned = Found(n, "termination_date")
  /\ \A m \in Loads \cup CallsOf("sleep") : m <= n
  /\ CallsOf("create_tags") = {}
  /\ IF last.op = "wait_for_tags" THEN n = Len(calls)
     ELSE CallsOf("terminate") # {} => \E r \in ValidationReasons : TerminationLine(r)
  /\ ~TerminationLine("Invalid lifetime value supplied")
  /\ ~TerminationLine("No termination_date found within {0} minutes of creation")

DeadlineFromStart ==
  last.op \in EnforcerOps =>
    /\ \A n \in Loads :
         (/\ Found(n, "termination_date") \in {None, Empty}
          /\ Found(n, "lifetime").form = "text"
          /\ IsShorthand(Found(n, "lifetime").chars)) =>
           /\ n < Len(calls)
           /\ calls[n + 1] =
                ProviderCall("create_tags", last.arg,
                  [Key |-> "termination_date",
                   Value |-> [form |-> "aware",
                              t |-> last.start + Duration(Found(n, "lifetime").chars)]])
           /\ TagValue(provider[last.arg].tags, "termination_date") = calls[n + 1].arg.Value
           /\ CallsOf("terminate") = {}
    /\ \A c \in CallsOf("create_tags") :
         calls[c].arg.Value # Indefinite =>
           /\ c - 1 \in Loads
           /\ Found(c - 1, "lifetime").form = "text"
           /\ IsShorthand(Found(c - 1, "lifetime").chars)

\* the lifetime tag appeared after the first poll and the deadline was
\* written from it
DeadlineWrittenAfterWaiting ==
  /\ last.op \in EnforcerOps
  /\ last.start > 0
  /\ \E c \in CallsOf("create_tags") :
       /\ c > 2
       /\ calls[c].arg.Value.form = "aware"
       /\ calls[c].arg.Value.t > last.start
       /\ now > last.start

\* C17: a poll that finds no termination_date and lifetime = 'indefinite'
\* is followed by the write of termination_date = 'indefinite' and nothing
\* else: no validation of lifetime or deadline, no terminate, and enforce
\* ends with "Schema successfully enforced.".
IndefiniteLifetimeExempts ==
  last.op \in EnforcerOps =>
    \A n \in Loads :
      (/\ Found(n, "termination_date") \in {None, Empty}
       /\ Found(n, "lifetime") = Indefinite) =>
        /\ n + 1 = Len(calls)
        /\ calls[n + 1] = ProviderCall("create_tags", last.arg,
                            [Key |-> "termination_date", Value |-> Indefinite])
        /\ TagValue(provider[last.arg].tags, "termination_date") = Indefinite
        /\ outcome["wait_for_tags"].returned = None
        /\ raised = "none"
        /\ \A m \in 1..Len(log) : log[m].msg # "REAPER TERMINATION"
        /\ provider[last.arg].state = "pending"
        /\ last.op = "enforce" => log[Len(log)].msg = "Schema successfully enforced."

\* enforce exempted an instance whose lifetime is 'indefinite'
IndefiniteLifetimeEnforced ==
  /\ last.op = "enforce"
  /\ last.livemode
  /\ \E n \in Loads : Found(n, "lifetime") = Indefinite /\ Found(n, "termination_date") = None
  /\ TagValue(provider[last.arg].tags, "termination_date") = Indefinite

\* the instance is one of the platform's: its Name tag contains 'opsworks'
PlatformManaged(tag_array) ==
  /\ TagValue(tag_array, "Name") # None
  /\ StrContains(Chars_opsworks, TagChars(TagValue(tag_array, "Name")))

\* C18: a poll that finds no termination_date on an instance whose Name tag
\* contains 'opsworks' is followed by the write of termination_date =
\* 'indefinite', and the instance is not terminated, whatever its lifetime.
PlatformManagedExempt ==
  last.op \in EnforcerOps =>
    \A n \in Loads :
      (Found(n, "termination_date") = None /\ PlatformManaged(calls[n].arg)) =>
        /\ n < Len(calls)
        /\ calls[n + 1] = ProviderCall("create_tags", last.arg,
                            [Key |-> "termination_date", Value |-> Indefinite])
        /\ CallsOf("terminate") = {}
        /\ \A m \in 1..Len(log) : log[m].msg # "REAPER TERMINATION"

\* C19: a poll that finds no termination_date and a lifetime tag that is
\* present, is not 'indefinite' and is not a shorthand (the empty string
\* included) escalates at once: termination with the reason 'Invalid
\* lifetime value supplied', no later poll or sleep, no tag write.
InvalidLifetimeTerminatesAtOnce ==
  last.op \in EnforcerOps =>
    \A n \in Loads :
      (/\ Found(n, "termination_date") = None
       /\ Found(n, "lifetime") # None
       /\ Found(n, "lifetime") # Indefinite
       /\ ~IsShorthand(TagChars(Found(n, "lifetime")))) =>
        /\ TerminationLine("Invalid lifetime value supplied")
        /\ \A m \in Loads \cup CallsOf("sleep") : m <= n
        /\ CallsOf("create_tags") = {}
        /\ last.livemode => (n < Len(calls) /\ calls[n + 1].op = "terminate")

\* C20: when no poll finds a termination_date or a lifetime tag, the wait
\* polls and sleeps wait_time * 4 times (not at all for a wait_time of 0) and
\* then terminates the instance, exactly in live mode, with the reason 'No
\* termination_date found within N minutes'; and that termination is never
\* printed before wait_time minutes have passed since the start.
TimeoutTerminatesAfterBudget ==
  last.op \in EnforcerOps =>
    /\ (\A n \in Loads : Found(n, "termination_date") = None /\ Found(n, "lifetime") = None) =>
         /\ Cardinality(Loads) = last.wait_time * 4
         /\ Cardinality(CallsOf("sleep")) = last.wait_time * 4
         /\ TerminationLine("No termination_date found within {0} minutes of creation")
         /\ last.livemode <=> CallsOf("terminate") # {}
         /\ \A m \in CallsOf("terminate") :
              /\ calls[m].id = last.arg
              /\ \A k \in Loads \cup CallsOf("sleep") : k < m
         /\ CallsOf("create_tags") = {}
         /\ provider[last.arg].state = IF last.livemode THEN "terminated" ELSE "pending"
    /\ TerminationLine("No termination_date found within {0} minutes of creation") =>
         /\ now >= last.start + last.wait_time * 4
         /\ Cardinality(CallsOf("sleep")) = last.wait_time * 4
         /\ \A n \in Loads : ~Truthy(Found(n, "termination_date")) /\ ~Truthy(Found(n, "lifetime"))

\* a live wait of four minutes polled sixteen times in vain and terminated
\* the instance
WaitedInVain ==
  /\ last.op = "wait_for_tags"
  /\ last.livemode
  /\ provider[last.arg].state = "terminated"
  /\ last.wait_time = 4
  /\ Cardinality(Loads) = 16
  /\ now = last.start + 16
  /\ TerminationLine("No termination_date found within {0} minutes of creation")

\* the value wait_for_tags returned to enforce
Returned == outcome["wait_for_tags"].returned

\* the operation printed a termination, whatever the reason
Escalated == \E n \in 1..Len(log) : log[n].msg = "REAPER TERMINATION"

\* C21: when wait_for_tags hands enforce a termination_date other than
\* 'indefinite', enforce terminates the instance with the reason 'requires a
\* UTC offset' for a timestamp without offset, 'Unable to parse' for a value
\* that is no timestamp and 'has passed' for a timestamp that is not in the
\* future, and terminates nothing for an aware timestamp in the future.
DirectDeadlineValidated ==
  (last.op = "enforce" /\ Truthy(Returned) /\ Returned # Indefinite) =>
    CASE Returned.form = "naive" ->
           /\ TerminationLine("The termination_date requires a UTC offset")
           /\ last.livemode <=> CallsOf("terminate") # {}
      [] Returned.form = "junk" ->
           /\ TerminationLine("Unable to parse the termination_date")
           /\ last.livemode <=> CallsOf("terminate") # {}
      [] Returned.form = "aware" /\ Returned.t <= now ->
           /\ TerminationLine("The termination_date has passed")
           /\ last.livemode <=> CallsOf("terminate") # {}
      [] OTHER ->
           /\ CallsOf("terminate") = {}
           /\ ~Escalated

\* C22: a deadline that enforce derived from a lifetime tag and wrote is
\* validated before enforce ends: one that is not in the future (that of a
\* zero-length lifetime is the start time) ends in termination with the
\* reason 'has passed' within the same invocation.
DerivedDeadlineValidated ==
  last.op = "enforce" =>
    \A c \in CallsOf("create_tags") :
      (calls[c].arg.Value.form = "aware" /\ calls[c].arg.Value.t <= now) =>
        /\ TerminationLine("The termination_date has passed")
        /\ last.livemode <=> CallsOf("terminate") # {}

\* C23: an enforce invocation that escalates issues the terminate (in live
\* mode) and then raises, so it does not print 'Schema successfully
\* enforced.'; and one that raises has issued the terminate.
EscalationRaises ==
  last.op = "enforce" =>
    /\ Escalated =>
         /\ raised # "none"
         /\ last.livemode => CallsOf("terminate") # {}
         /\ \A n \in 1..Len(log) : log[n].msg # "Schema successfully enforced."
    /\ raised # "none" => (Escalated /\ (last.livemode => CallsOf("terminate") # {}))

\* C26: a sweep writes no tag: every step of a sweep leaves the tags of every
\* resource as they were and issues no create_tags (the enforcer is the only
\* writer of termination_date).
SweepWritesNoTag ==
  [][(now' = now /\ last'.op \in SweepOps) =>
       /\ \A i \in Ids : provider'[i].tags = provider[i].tags
       /\ \A n \in 1..Len(calls') : calls'[n].op # "create_tags"]_vars

\* a live sweep that stopped an untagged instance, which is still untagged
StoppedInstanceStillUntagged ==
  /\ last.op \in SweepOps
  /\ last.livemode
  /\ \E i \in Ids :
       /\ \E n \in CallsOn(calls, i) : calls[n].op = "stop"
       /\ provider[i].state = "stopped"
       /\ provider[i].tags = NoTags

\* the ids in a list of a returned dict
IdsIn(list) == {list[n] : n \in 1..Len(list)}
Stopped(d) == IF "stopped" \in DOMAIN d THEN IdsIn(d.stopped) ELSE {}

\* C27 as stated: the lists deleted, stopped and improperly_tagged of every
\* returned dict are pairwise disjoint.
OutcomeListsDisjoint ==
  last.op \in SweepOps =>
    \A k \in DOMAIN outcome :
      /\ IdsIn(outcome[k].deleted) \cap IdsIn(outcome[k].improperly_tagged) = {}
      /\ IdsIn(outcome[k].deleted) \cap Stopped(outcome[k]) = {}
      /\ Stopped(outcome[k]) \cap IdsIn(outcome[k].improperly_tagged) = {}

\* C27: in every returned dict the list deleted is disjoint from the lists
\* stopped and improperly_tagged, and every id in stopped is also in
\* improperly_tagged.
DeletedDisjointStoppedWithin ==
  last.op \in SweepOps =>
    \A k \in DOMAIN outcome :
      /\ IdsIn(outcome[k].deleted) \cap IdsIn(outcome[k].improperly_tagged) = {}
      /\ IdsIn(outcome[k].deleted) \cap Stopped(outcome[k]) = {}
      /\ Stopped(outcome[k]) \subseteq IdsIn(outcome[k].improperly_tagged)

\* a live sweep of the instances that deleted one and stopped the other
OneDeletedOneStopped ==
  /\ last.op \in SweepOps
  /\ last.livemode
  /\ "instances" \in DOMAIN outcome
  /\ outcome["instances"].deleted # <<>>
  /\ outcome["instances"].stopped # <<>>
  /\ outcome["instances"].improperly_tagged = outcome["instances"].stopped

\* C28: determine_live_mode returns true exactly when LIVEMODE is set and its
\* whole value is 'true' in any mix of cases; it returns false when LIVEMODE
\* is unset, whatever other variables are set, and for every other value.
LiveModeIffWholeValueTrue ==
  last.op = "determine_live_mode" =>
    (outcome["determine_live_mode"] <=>
       /\ "LIVEMODE" \in DOMAIN last.arg
       /\ last.arg["LIVEMODE"] \in TrueSpellings)

\* C29: validate_lifetime_value returns (n, unit) for every string that is
\* one or more digits followed by one of w, d, h, m, and None for every
\* other string.
LifetimeSyntax ==
  last.op = "validate_lifetime_value" =>
    IF IsShorthand(last.arg)
      THEN outcome["validate_lifetime_value"] =
             [none |-> FALSE, length |-> Number(StrDropLast(last.arg)),
              unit |-> last.arg[Len(last.arg)]]
      ELSE outcome["validate_lifetime_value"].none

\* C30: validate_lifetime_value('indefinite') is the sentinel and not the
\* invalid result.
SentinelAccepted ==
  (last.op = "validate_lifetime_value" /\ last.arg = Chars_indefinite) =>
    ~outcome["validate_lifetime_value"].none


\* the value a create_tags call of the enforcer wrote
Wrote(v) ==
  \E n \in CallsOf("create_tags") : (calls[n].arg.Value = Indefinite) <=> v = Indefinite

\* the ways wait_for_tags ends: with a deadline on the instance (found or
\* derived), with the exemption, with the termination for an invalid
\* lifetime, with the termination for the exceeded wait
TerminalOutcomes ==
  {o \in {"deadline", "indefinite", "invalid lifetime", "timeout"} :
     CASE o = "deadline" ->
            \/ Truthy(outcome.returned) /\ outcome.returned # Indefinite
            \/ Wrote([form |-> "aware", t |-> 0])
       [] o = "indefinite" -> outcome.returned = Indefinite \/ Wrote(Indefinite)
       [] o = "invalid lifetime" -> TerminationLine("Invalid lifetime value supplied")
       [] o = "timeout" ->
            TerminationLine("No termination_date found within {0} minutes of creation")}

ConcreteDeadlineImmutable ==
  [][\A i \in Ids :
       (TerminationDate(provider, i).form \in {"aware", "naive"} /\ calls' # calls) =>
         TerminationDate(provider', i) = TerminationDate(provider, i)]_vars

\* the timedelta of a number of seconds: its days and seconds
Days(n, unit) ==
  CASE unit = "w" -> IF n <= 142857142 THEN 7 * n ELSE -1
    [] unit = "d" -> n
    [] unit = "h" -> n \div 24
    [] unit = "m" -> n \div 1440
Seconds(n, unit) ==
  CASE unit = "h" -> (n % 24) * 3600
    [] unit = "m" -> (n % 1440) * 60
    [] OTHER -> 0

\* C31: calculate_lifetime_delta maps (n, 'w') to n * 604800 seconds,
\* (n, 'd') to n * 86400, (n, 'h') to n * 3600 and (n, 'm') to n * 60
\* seconds, for every n >= 0, and raises ValueError for every other unit.
LifetimeDeltaFixedSizes ==
  last.op = "calculate_lifetime_delta" =>
    IF last.arg.unit \in {"w", "d", "h", "m"}
      THEN outcome["calculate_lifetime_delta"] =
             [err |-> "none", days |-> Days(last.arg.length, last.arg.unit),
              seconds |-> Seconds(last.arg.length, last.arg.unit)]
      ELSE outcome["calculate_lifetime_delta"].err = "ValueError"

\* the timedelta of n units has at most 999999999 days
Representable(n, unit) ==
  CASE unit = "w" -> n <= 142857142
    [] unit = "d" -> n <= 999999999
    [] unit = "h" -> n \div 24 <= 999999999
    [] unit = "m" -> n \div 1440 <= 999999999

\* C31, within the range of timedelta: calculate_lifetime_delta maps
\* (n, 'w') to n * 604800 seconds, (n, 'd') to n * 86400, (n, 'h') to
\* n * 3600 and (n, 'm') to n * 60 seconds for every n >= 0 whose duration
\* has at most 999999999 days, raises OverflowError for a longer one, and
\* raises ValueError for every other unit.
LifetimeDeltaInRange ==
  last.op = "calculate_lifetime_delta" =>
    IF last.arg.unit \notin {"w", "d", "h", "m"}
      THEN outcome["calculate_lifetime_delta"].err = "ValueError"
    ELSE IF Representable(last.arg.length, last.arg.unit)
      THEN outcome["calculate_lifetime_delta"] =
             [err |-> "none", days |-> Days(last.arg.length, last.arg.unit),
              seconds |-> Seconds(last.arg.length, last.arg.unit)]
    ELSE outcome["calculate_lifetime_delta"].err = "OverflowError"

\* calculate_lifetime_delta was handed a day and a minute, in minutes
DayAndMinuteConverted ==
  /\ last.op = "calculate_lifetime_delta"
  /\ last.arg = [none |-> FALSE, length |-> 1441, unit |-> "m"]
  /\ outcome["calculate_lifetime_delta"] = [err |-> "none", days |-> 1, seconds |-> 60]

\* C32: get_tag returns None for an unset tag array, for an empty one and
\* for one without the key, and the value of the first tag with the key
\* otherwise.
GetTagFirstMatch ==
  last.op = "get_tag" =>
    LET list == last.arg.tag_array.list
        hits == {n \in 1..Len(list) : list[n].Key = last.arg.tag_name}
    IN outcome["get_tag"] =
         IF last.arg.tag_array.none \/ hits = {} THEN None
         ELSE list[CHOOSE n \in hits : \A m \in hits : n <= m].Value

\* get_tag found the key twice, with two values, behind a tag of another key
GetTagPassedOverTags ==
  /\ last.op = "get_tag"
  /\ Len(last.arg.tag_array.list) = 3
  /\ last.arg.tag_array.list[1].Key # last.arg.tag_name
  /\ last.arg.tag_array.list[2].Key = last.arg.tag_name
  /\ last.arg.tag_array.list[3].Key = last.arg.tag_name
  /\ last.arg.tag_array.list[3].Value # last.arg.tag_array.list[2].Value
  /\ outcome["get_tag"] = last.arg.tag_array.list[2].Value

\* sub occurs in s
Occurs(sub, s) ==
  \E i \in 0..(Len(s) - Len(sub)) : \A k \in 1..Len(sub) : s[i + k] = sub[k]

\* C33: the notifier colours a line red when 'STOPPED' occurs in it,
\* otherwise orange when 'FOUND' occurs in it, otherwise green or yellow;
\* the line printed for a dry-run stop is not red.
SeverityBySubstring ==
  last.op = "determine_message_color" =>
    /\ outcome["determine_message_color"] =
         IF Occurs(Chars_STOPPED, last.arg.message) THEN "#ff0000"
         ELSE IF Occurs(Chars_FOUND, last.arg.message) THEN "#ff7f50"
         ELSE IF Occurs(Chars_Terminator, last.arg.logGroup) THEN "#33cc33"
         ELSE "#ffff00"
    /\ \A what \in {"instances", "vpcs", "elbv2s", "target_group"},
          ids \in {<<"r1">>, <<"r1", "r2">>} :
         /\ last.arg.message = format("NOOP_STOPPED", what, ids)
              => outcome["determine_message_color"] \in {"#33cc33", "#ffff00"}
         /\ last.arg.message = format("STOPPED_MESSAGE", what, ids)
              => outcome["determine_message_color"] = "#ff0000"
         /\ last.arg.message = format("IMPROPER_TAGS", what, ids)
              => outcome["determine_message_color"] = "#ff7f50"

\* the notifier was handed the line of a dry-run stop of two instances
DryRunStopLineColoured ==
  /\ last.op = "determine_message_color"
  /\ last.arg.message = format("NOOP_STOPPED", "instances", <<"r1", "r2">>)
  /\ outcome["determine_message_color"] = "#33cc33"

\* C34: a sweep of the instances stops (in live mode) every running instance
\* whose termination_date is present but is no timezone-aware timestamp, a
\* date without offset for one, records it as improperly tagged and does not
\* terminate it.
IncorrectTagStopsInstance ==
  [][\A i \in Ids :
       (/\ SweepCovers(i)
        /\ provider[i].kind = "instances"
        /\ TerminationDate(provider, i).form \in {"naive", "junk"}) =>
         /\ Recorded(outcome', "improperly_tagged", i)
         /\ (last'.livemode <=> \E n \in CallsOn(calls', i) : calls'[n].op = "stop")
         /\ \A n \in CallsOn(calls', i) : calls'[n].op # "terminate"]_vars

\* C35: an enforce that finds the termination_date 'indefinite' on the
\* instance ends normally: it terminates nothing, writes no tag, raises
\* nothing and prints 'Schema successfully enforced.'.
ExemptInstanceLeftAlone ==
  (last.op = "enforce" /\ Returned = Indefinite) =>
    /\ raised = "none"
    /\ CallsOf("terminate") = {}
    /\ CallsOf("create_tags") = {}
    /\ ~Escalated
    /\ log[Len(log)].msg = "Schema successfully enforced."

\* C36: while a call of wait_for_tags for an instance is in its loop, no
\* sweep issues a stop for that instance.
SweepSparesWaitingInstance ==
  [][InLoop =>
       \A n \in 1..Len(calls') :
         (n > Len(calls) /\ calls'[n].op = "stop") => calls'[n].id # last.arg]_vars

\* C37: after a live sweep that ended without an exception, no id it recorded
\* under deleted is still listed by the provider, so that a sweep that
\* follows at the same clock cannot record it again.
DeletedIdsAreGone ==
  (last.op \in SweepOps /\ last.livemode /\ raised = "none") =>
    \A i \in Ids : Recorded(outcome, "deleted", i) => ~Listed(provider, i)

\* the step is one per-kind sweep
PerKindSweep ==
  /\ now' = now
  /\ last'.op \in SweepOps \ {"resource_reaper"}

\* what the sweep of the step returns when run with the other livemode on
\* the provider state and at the clock the step started from
OtherMode ==
  CASE last'.op = "terminate_expired_ec2_resources" ->
         LET acc == terminate_expired_ec2_resources(provider, <<>>, last'.arg,
                                                    ~last'.livemode, now)
         IN [raised |-> acc.raised, data |-> Ec2Data(acc), calls |-> acc.calls]
    [] last'.op = "terminate_expired_load_balancers" ->
         LET acc == terminate_expired_load_balancers(provider, <<>>, last'.arg,
                                                     ~last'.livemode, now)
         IN [raised |-> acc.raised, data |-> ElbData(acc), calls |-> acc.calls]
    [] OTHER ->
         LET acc == terminate_expired_target_groups(provider, <<>>, ~last'.livemode, now)
         IN [raised |-> acc.raised, data |-> ElbData(acc), calls |-> acc.calls]

\* C38: a per-kind sweep returns the same deleted, stopped and
\* improperly_tagged lists (or raises the same exception) as the same sweep
\* run with the other livemode on the same provider state at the same clock;
\* the dry run of the two issues no provider call.
DryRunAndLiveReportAlike ==
  [][PerKindSweep =>
       /\ raised' = OtherMode.raised
       /\ raised' = "none" => outcome' = (last'.arg :> OtherMode.data)
       /\ (IF last'.livemode THEN OtherMode.calls ELSE calls') = <<>>]_vars

\* a live sweep of the instances that deleted one and stopped another, with
\* the calls that did it
LiveSweepDeletedAndStopped ==
  /\ last.op = "terminate_expired_ec2_resources"
  /\ last.arg = "instances"
  /\ last.livemode
  /\ raised = "none"
  /\ \E i, j \in Ids :
       /\ Recorded(outcome, "deleted", i)
       /\ Recorded(outcome, "stopped", j)
       /\ \E n, m \in 1..Len(calls) :
            /\ calls[n] = ProviderCall("terminate", i, 0)
            /\ calls[m] = ProviderCall("stop", j, 0)

\* poll n of the enforcer took the termination_date tag as present: the wait
\* ended at that poll and returned the value found
EnforcerTookAsPresent(n) ==
  /\ Returned # None
  /\ Returned = Found(n, "termination_date")
  /\ \A m \in Loads : m <= n

\* a sweep handed a running instance with these tags takes its
\* termination_date tag as present: it does not record the instance as
\* improperly tagged
SweepTakesAsPresent(tag_array) ==
  LET prov == [provider EXCEPT ![last.arg].tags = tag_array,
                               ![last.arg].state = "running"]
      acc == ec2_item(NewSweep(prov, <<>>), "instances", last.arg, FALSE, now)
  IN acc.improperly_tagged = <<>>

\* C39: for the tags a poll of the enforcer finds, the enforcer takes
\* termination_date as present (returns it and polls no more) exactly when a
\* sweep of the same tags does (it does not record the instance as
\* improperly tagged), an empty value included.
PresenceAgreed ==
  last.op \in EnforcerOps =>
    \A n \in Loads : EnforcerTookAsPresent(n) <=> SweepTakesAsPresent(calls[n].arg)

\* no id is in the list twice
NoRepeats(list) == \A n, m \in 1..Len(list) : list[n] = list[m] => n = m

\* C40: in every dict a sweep returns, each id of stopped is in
\* improperly_tagged, stopped holds ids only for the instances, no id of
\* deleted is in stopped or improperly_tagged, and no list holds an id twice.
OutcomeShape ==
  last.op \in SweepOps =>
    \A k \in DOMAIN outcome :
      /\ Stopped(outcome[k]) \subseteq IdsIn(outcome[k].improperly_tagged)
      /\ k # "instances" => Stopped(outcome[k]) = {}
      /\ IdsIn(outcome[k].deleted)
           \cap (Stopped(outcome[k]) \cup IdsIn(outcome[k].improperly_tagged)) = {}
      /\ \A f \in DOMAIN outcome[k] : NoRepeats(outcome[k][f])

\* a dry run over two instances without tags: both are in improperly_tagged
\* and in stopped, once each, and no call was issued
DryRunListedBothUntagged ==
  /\ last.op \in SweepOps
  /\ ~last.livemode
  /\ "instances" \in DOMAIN outcome
  /\ outcome["instances"].stopped = <<"r1", "r2">>
  /\ outcome["instances"].improperly_tagged = <<"r1", "r2">>
  /\ outcome["instances"].deleted = <<>>
  /\ calls = <<>>

====
